---- MODULE Spec2Model ----
(***************************************************************************)
(* State-machine model of the two event counters of the excavator          *)
(* detection pipeline:                                                     *)
(*   PenghitungPassing (backend/penghitung_passing.py)                     *)
(*   PenghitungRitase  (backend/penghitung_ritase.py)                      *)
(* Each counter object is one record-valued variable whose fields carry    *)
(* the names of the Python attributes.  Every method is an operator that   *)
(* maps the object before the call to the object after it (and, for        *)
(* proses_deteksi, to the returned boolean), so that a caller can chain    *)
(* calls the way the Python code does.                                     *)
(***************************************************************************)
EXTENDS Integers, Sequences, FiniteSets, TLC

\* ------------------------------------------------------------------ bounds
\* Number of API calls explored from construction.
MaxOps == 4

\* Number of video frames of a detection run.
MaxFrames == 2

\* Tracker ids: two distinct tracked objects.
TrackerIds == {1, 2}
\* Frame indices: two frames, so that one tracker has two identities.
FrameIdx == {1, 2}
\* Confidence scores are floats in the code; only their order is used, so they
\* are modelled as levels: one below the threshold and two at or above it.
Confidences == {1, 2, 3}

\* ------------------------------------------------------- program constants
CLASS_BUCKET_DIGGING == 1
CLASS_BUCKET_DUMPING == 2
CLASS_TRUCK_FULL == 6
\* The min_confidence constructor argument, as a confidence level: levels
\* below it are rejected, levels from it on are accepted.
MIN_CONFIDENCE == 2

ClassIds == {CLASS_BUCKET_DIGGING, CLASS_BUCKET_DUMPING, CLASS_TRUCK_FULL}

\* Python's None.
None == [none |-> TRUE]

\* f"{tracker_id}_{frame_index}": the decimal digits of the two integers joined
\* by "_".  The format is injective on pairs of integers, which is all the code
\* uses of it (set membership), so the string is modelled as the pair.
FormatId(tracker_id, frame_index) == <<tracker_id, frame_index>>

Max(a, b) == IF a >= b THEN a ELSE b

\* dict[key] = value
DictSet(d, key, value) == (key :> value) @@ d

EmptyDict == [x \in {} |-> None]

\* ======================================================= PenghitungRitase

\* PenghitungRitase.__init__
RitaseBaru(min_confidence) ==
    [ data_truk                    |-> EmptyDict,
      truk_full_terhitung          |-> {},
      ambang_kepercayaan           |-> min_confidence,
      total_ritase                 |-> 0,
      siklus_aktif                 |-> EmptyDict,
      total_siklus_selesai         |-> 0,
      total_deteksi_truk_penuh     |-> 0,
      siklus_berjalan_punya_ritase |-> FALSE,
      ritase_terbaik_di_siklus     |-> None,
      nomor_siklus                 |-> 0,
      total_pencegahan_ganda       |-> 0,
      kandidat_siklus              |-> <<>> ]

\* PenghitungRitase._inisialisasi_truck
InisialisasiTruck(self, tracker_id) ==
    [self EXCEPT !.data_truk = DictSet(@, tracker_id,
        [ ritase_count      |-> 0,
          best_full         |-> None,
          last_cycle_frame  |-> 0,
          last_cycle_number |-> -1 ])]

\* The record stored in ritase_terbaik_di_siklus (lines 138-143, 198-203).
BestRitase(self, tracker_id, frame_index, confidence) ==
    [ tracker_id   |-> tracker_id,
      frame_index  |-> frame_index,
      confidence   |-> confidence,
      cycle_number |-> self.nomor_siklus ]

\* The record stored in data_truk[tracker_id]["best_full"] (lines 155-160, 207-212).
BestFull(self, tracker_id, frame_index, confidence) ==
    [ full_truck_id |-> FormatId(tracker_id, frame_index),
      frame_index   |-> frame_index,
      confidence    |-> confidence,
      cycle_number  |-> self.nomor_siklus ]

\* The entry appended to kandidat_siklus.
KandidatInfo(tracker_id, frame_index, confidence, status) ==
    [ tracker_id  |-> tracker_id,
      frame_index |-> frame_index,
      confidence  |-> confidence,
      status      |-> status ]

\* Mutant of KandidatLebihBaik: an equal confidence replaces the best too.
KandidatLebihBaik_AtauSama(self, confidence) ==
    \/ self.ritase_terbaik_di_siklus = None
    \/ confidence >= self.ritase_terbaik_di_siklus.confidence

\* kandidat_lebih_baik (lines 131-134)
KandidatLebihBaik(self, confidence) ==
    \/ self.ritase_terbaik_di_siklus = None
    \/ confidence > self.ritase_terbaik_di_siklus.confidence

\* Mutant of KoreksiKandidatLama: the previous best's truck keeps its ritase.
KoreksiKandidatLama_TanpaKoreksi(data_truk, kandidat_lama) == data_truk

\* Mutant of KoreksiKandidatLama: the count is lowered without the floor at 0.
KoreksiKandidatLama_TanpaBatas(data_truk, kandidat_lama) ==
    IF kandidat_lama # None /\ kandidat_lama.tracker_id \in DOMAIN data_truk
    THEN [data_truk EXCEPT ![kandidat_lama.tracker_id].ritase_count = @ - 1]
    ELSE data_truk

\* Lines 145-151: take the ritase back from the previous best's truck.
KoreksiKandidatLama(data_truk, kandidat_lama) ==
    IF kandidat_lama # None /\ kandidat_lama.tracker_id \in DOMAIN data_truk
    THEN [data_truk EXCEPT ![kandidat_lama.tracker_id].ritase_count = Max(0, @ - 1)]
    ELSE data_truk

\* Lines 153-160: credit the ritase to the truck of this detection.
TambahRitaseTruck(self, data_truk, tracker_id, frame_index, confidence) ==
    [data_truk EXCEPT ![tracker_id].ritase_count = @ + 1,
                      ![tracker_id].best_full =
                          BestFull(self, tracker_id, frame_index, confidence)]

\* Mutant of PerbaruiKandidat: a detection swapped in as the better candidate
\* is marked as counted in truk_full_terhitung.
PerbaruiKandidat_TandaiTerhitung(self, tracker_id, frame_index, confidence) ==
    LET lebih_baik == KandidatLebihBaik(self, confidence)
        kandidat_lama == self.ritase_terbaik_di_siklus
        s1 == IF lebih_baik
              THEN [self EXCEPT
                      !.ritase_terbaik_di_siklus =
                          BestRitase(self, tracker_id, frame_index, confidence),
                      !.data_truk =
                          TambahRitaseTruck(self,
                              KoreksiKandidatLama(self.data_truk, kandidat_lama),
                              tracker_id, frame_index, confidence),
                      !.truk_full_terhitung =
                          @ \cup {FormatId(tracker_id, frame_index)}]
              ELSE self
    IN  [s1 EXCEPT
           !.kandidat_siklus = Append(@, KandidatInfo(tracker_id, frame_index, confidence,
                                   IF lebih_baik THEN "better_candidate" ELSE "rejected")),
           !.total_pencegahan_ganda = @ + 1]

\* Lines 130-186: the global cycle already has a ritase.
PerbaruiKandidat(self, tracker_id, frame_index, confidence) ==
    LET lebih_baik == KandidatLebihBaik(self, confidence)
        kandidat_lama == self.ritase_terbaik_di_siklus
        s1 == IF lebih_baik
              THEN [self EXCEPT
                      !.ritase_terbaik_di_siklus =
                          BestRitase(self, tracker_id, frame_index, confidence),
                      !.data_truk =
                          TambahRitaseTruck(self,
                              KoreksiKandidatLama(self.data_truk, kandidat_lama),
                              tracker_id, frame_index, confidence)]
              ELSE self
    IN  [s1 EXCEPT
           !.kandidat_siklus = Append(@, KandidatInfo(tracker_id, frame_index, confidence,
                                   IF lebih_baik THEN "better_candidate" ELSE "rejected")),
           !.total_pencegahan_ganda = @ + 1]

\* Mutant of LolosValidasi: the confidence is not compared to the threshold.
LolosValidasi_TanpaAmbang(self, tracker_id, frame_index, confidence) ==
    FormatId(tracker_id, frame_index) \notin self.truk_full_terhitung

\* Mutant of LolosValidasi: the identity is not looked up in the seen-set.
LolosValidasi_TanpaDedup(self, tracker_id, frame_index, confidence) ==
    confidence >= self.ambang_kepercayaan

\* Line 190: the dedup and threshold test of a first ritase.
LolosValidasi(self, tracker_id, frame_index, confidence) ==
    /\ FormatId(tracker_id, frame_index) \notin self.truk_full_terhitung
    /\ confidence >= self.ambang_kepercayaan

\* self.siklus_aktif[tracker_id].append(...) on a defaultdict(list)
AppendAktif(siklus_aktif, tracker_id, entry) ==
    DictSet(siklus_aktif, tracker_id,
            Append(IF tracker_id \in DOMAIN siklus_aktif
                   THEN siklus_aktif[tracker_id] ELSE <<>>, entry))

\* Lines 191-234: the first ritase of the global cycle.
RitasePertama(self, tracker_id, frame_index, confidence) ==
    [self EXCEPT
       !.siklus_aktif = AppendAktif(@, tracker_id,
            [ full_truck_id |-> FormatId(tracker_id, frame_index),
              frame_index   |-> frame_index,
              confidence    |-> confidence ]),
       !.siklus_berjalan_punya_ritase = TRUE,
       !.ritase_terbaik_di_siklus = BestRitase(self, tracker_id, frame_index, confidence),
       !.data_truk = TambahRitaseTruck(self, @, tracker_id, frame_index, confidence),
       !.total_ritase = @ + 1,
       !.kandidat_siklus = Append(@, KandidatInfo(tracker_id, frame_index, confidence,
                                                   "accepted_as_primary")),
       !.truk_full_terhitung = @ \cup {FormatId(tracker_id, frame_index)}]

\* Mutant of RitaseSelesaikanSiklus: closing a truck's cycle also clears its
\* ritase_count.
RitaseSelesaikanSiklus_ResetHitungan(self, tracker_id) ==
    IF tracker_id \in DOMAIN self.siklus_aktif
    THEN [self EXCEPT
            !.siklus_aktif = DictSet(@, tracker_id, <<>>),
            !.data_truk =
                IF tracker_id \in DOMAIN @
                THEN [@ EXCEPT ![tracker_id].ritase_count = 0,
                               ![tracker_id].best_full = None,
                               ![tracker_id].last_cycle_frame = 0,
                               ![tracker_id].last_cycle_number = self.nomor_siklus]
                ELSE @]
    ELSE self

\* PenghitungRitase.selesaikan_siklus
RitaseSelesaikanSiklus(self, tracker_id) ==
    IF tracker_id \in DOMAIN self.siklus_aktif
    THEN [self EXCEPT
            !.siklus_aktif = DictSet(@, tracker_id, <<>>),
            !.data_truk =
                IF tracker_id \in DOMAIN @
                THEN [@ EXCEPT ![tracker_id].best_full = None,
                               ![tracker_id].last_cycle_frame = 0,
                               ![tracker_id].last_cycle_number = self.nomor_siklus]
                ELSE @]
    ELSE self

\* Line 271: the trucks with a non-empty active-cycle list.
TrukDenganSiklusAktif(self) ==
    {tid \in DOMAIN self.siklus_aktif : Len(self.siklus_aktif[tid]) > 0}

\* Lines 273-274: selesaikan_siklus for each of them.
RECURSIVE TutupSemua(_, _)
TutupSemua(self, ids) ==
    IF ids = {} THEN self
    ELSE LET id_truk == CHOOSE x \in ids : \A y \in ids : x <= y
         IN  TutupSemua(RitaseSelesaikanSiklus(self, id_truk), ids \ {id_truk})

\* Mutant of AdaAktivitas: only the active-cycle lists are looked at.
AdaAktivitas_HanyaDaftarAktif(self, truk_aktif) == truk_aktif # {}

\* Line 276: whether the closing signal ends a global cycle.
AdaAktivitas(self, truk_aktif) ==
    truk_aktif # {} \/ self.siklus_berjalan_punya_ritase

\* Mutant of ResetStateGlobal: the candidate trail is not cleared.
ResetStateGlobal_JejakTetap(self) ==
    [self EXCEPT !.siklus_berjalan_punya_ritase = FALSE,
                 !.ritase_terbaik_di_siklus = None,
                 !.nomor_siklus = @ + 1]

\* Mutant of ResetStateGlobal: the closed cycle's ritase flag is kept.
ResetStateGlobal_TetapPunyaRitase(self) ==
    [self EXCEPT !.ritase_terbaik_di_siklus = None,
                 !.kandidat_siklus = <<>>,
                 !.nomor_siklus = @ + 1]

\* Mutant of ResetStateGlobal: the cycle number is not advanced.
ResetStateGlobal_TanpaNomor(self) ==
    [self EXCEPT !.siklus_berjalan_punya_ritase = FALSE,
                 !.ritase_terbaik_di_siklus = None,
                 !.kandidat_siklus = <<>>]

\* Lines 293-297: reset of the global cycle state.
ResetStateGlobal(self) ==
    [self EXCEPT !.siklus_berjalan_punya_ritase = FALSE,
                 !.ritase_terbaik_di_siklus = None,
                 !.kandidat_siklus = <<>>,
                 !.nomor_siklus = @ + 1]

\* PenghitungRitase._selesaikan_siklus_global
SelesaikanSiklusGlobal(self) ==
    LET truk_aktif == TrukDenganSiklusAktif(self)
        s1 == TutupSemua(self, truk_aktif)
    IN  IF AdaAktivitas(self, truk_aktif)
        THEN ResetStateGlobal([s1 EXCEPT !.total_siklus_selesai = @ + 1])
        ELSE s1

\* Mutant of HitungDeteksiTrukPenuh: the detection is not counted.
HitungDeteksiTrukPenuh_Tidak(self) == self

\* Line 127: the raw counter of truck_full detections.
HitungDeteksiTrukPenuh(self) ==
    [self EXCEPT !.total_deteksi_truk_penuh = @ + 1]

\* PenghitungRitase.proses_deteksi: the object after the call and the value
\* returned.
RitaseProsesDeteksi(self0, tracker_id, class_id, frame_index, confidence) ==
    LET self == IF tracker_id \in DOMAIN self0.data_truk
                THEN self0 ELSE InisialisasiTruck(self0, tracker_id)
    IN  IF class_id = CLASS_TRUCK_FULL
        THEN LET s1 == HitungDeteksiTrukPenuh(self)
             IN  IF s1.siklus_berjalan_punya_ritase
                 THEN [obj |-> PerbaruiKandidat(s1, tracker_id, frame_index, confidence),
                       ret |-> FALSE]
                 ELSE IF LolosValidasi(s1, tracker_id, frame_index, confidence)
                 THEN [obj |-> RitasePertama(s1, tracker_id, frame_index, confidence),
                       ret |-> TRUE]
                 ELSE [obj |-> s1, ret |-> FALSE]
        ELSE IF class_id = CLASS_BUCKET_DUMPING
        THEN [obj |-> SelesaikanSiklusGlobal(self), ret |-> FALSE]
        ELSE [obj |-> self, ret |-> FALSE]

\* PenghitungRitase.selesaikan_siklus_manual
SelesaikanSiklusManual(self, tracker_id, frame_index) ==
    IF tracker_id \in DOMAIN self.data_truk
    THEN RitaseSelesaikanSiklus(
            [self EXCEPT !.data_truk[tracker_id].last_cycle_frame = frame_index,
                         !.data_truk[tracker_id].last_cycle_number = self.nomor_siklus],
            tracker_id)
    ELSE self

\* Mutant of ResetCounters: the cycle's ritase flag is cleared as well.
ResetCounters_HapusFlag(self) ==
    [self EXCEPT
       !.total_ritase = 0,
       !.siklus_berjalan_punya_ritase = FALSE,
       !.data_truk = [tid \in DOMAIN @ |->
                        [@[tid] EXCEPT !.ritase_count = 0, !.best_full = None]]]

\* PenghitungRitase.reset_counters
ResetCounters(self) ==
    [self EXCEPT
       !.total_ritase = 0,
       !.data_truk = [tid \in DOMAIN @ |->
                        [@[tid] EXCEPT !.ritase_count = 0, !.best_full = None]]]

\* Mutant of ResetStatistik: the cycle numbering is kept, as reset_counters
\* keeps it.
ResetStatistik_NomorTetap(self) ==
    [self EXCEPT
       !.data_truk = EmptyDict,
       !.truk_full_terhitung = {},
       !.total_ritase = 0,
       !.siklus_aktif = EmptyDict,
       !.total_siklus_selesai = 0,
       !.total_deteksi_truk_penuh = 0,
       !.siklus_berjalan_punya_ritase = FALSE,
       !.ritase_terbaik_di_siklus = None,
       !.total_pencegahan_ganda = 0,
       !.kandidat_siklus = <<>>]

\* PenghitungRitase.reset_statistik (lines 374-386): the assignments it makes;
\* ambang_kepercayaan is not assigned.
ResetStatistik(self) ==
    [self EXCEPT
       !.data_truk = EmptyDict,
       !.truk_full_terhitung = {},
       !.total_ritase = 0,
       !.siklus_aktif = EmptyDict,
       !.total_siklus_selesai = 0,
       !.total_deteksi_truk_penuh = 0,
       !.siklus_berjalan_punya_ritase = FALSE,
       !.ritase_terbaik_di_siklus = None,
       !.nomor_siklus = 0,
       !.total_pencegahan_ganda = 0,
       !.kandidat_siklus = <<>>]

\* PenghitungRitase.dapatkan_ritase_count, for a tracker id (line 349; with
\* None the method returns total_ritase)
DapatkanRitaseCount(self, tracker_id) ==
    IF tracker_id \in DOMAIN self.data_truk
    THEN self.data_truk[tracker_id].ritase_count ELSE 0

\* ====================================================== PenghitungPassing

\* PenghitungPassing.__init__
PassingBaru(min_confidence) ==
    [ excavators     |-> EmptyDict,
      counted_dumps  |-> {},
      min_confidence |-> min_confidence,
      total_passing  |-> 0,
      active_cycle   |-> EmptyDict ]

\* PenghitungPassing._inisialisasi_excavator
InisialisasiExcavator(self, tracker_id) ==
    [self EXCEPT !.excavators =
        DictSet(@, tracker_id, [passing_count |-> 0, best_dump |-> None])]

\* Mutant of DumpDiabaikan: the confidence is not compared to the threshold.
DumpDiabaikan_TanpaAmbang(self, dump_id, confidence) ==
    dump_id \in self.counted_dumps

\* Line 102: a dump that is ignored (already counted, or below the threshold).
DumpDiabaikan(self, dump_id, confidence) ==
    dump_id \in self.counted_dumps \/ confidence < self.min_confidence

\* Lines 113-115: whether the dump becomes the best candidate.
DumpLebihBaik(excavator, confidence) ==
    excavator.best_dump = None \/ confidence > excavator.best_dump.confidence

\* Mutant of GantiBestDump: every replacement counts as a new passing.
GantiBestDump_SelaluTambah(self, tracker_id, dump_id, frame_index, confidence) ==
    [obj |-> [self EXCEPT !.excavators[tracker_id].best_dump =
                              [ dump_id     |-> dump_id,
                                frame_index |-> frame_index,
                                confidence  |-> confidence ],
                          !.excavators[tracker_id].passing_count = @ + 1,
                          !.total_passing = @ + 1],
     ret |-> TRUE]

\* Lines 116-127: replace the best candidate; the first candidate of a cycle
\* is a new passing.
GantiBestDump(self, tracker_id, dump_id, frame_index, confidence) ==
    LET old_best == self.excavators[tracker_id].best_dump
        s1 == [self EXCEPT !.excavators[tracker_id].best_dump =
                  [ dump_id     |-> dump_id,
                    frame_index |-> frame_index,
                    confidence  |-> confidence ]]
    IN  IF old_best = None
        THEN [obj |-> [s1 EXCEPT !.excavators[tracker_id].passing_count = @ + 1,
                                 !.total_passing = @ + 1],
              ret |-> TRUE]
        ELSE [obj |-> s1, ret |-> FALSE]

\* PenghitungPassing.proses_deteksi: the object after the call and the value
\* returned.
PassingProsesDeteksi(self0, tracker_id, class_id, frame_index, confidence) ==
    LET self == IF tracker_id \in DOMAIN self0.excavators
                THEN self0 ELSE InisialisasiExcavator(self0, tracker_id)
        dump_id == FormatId(tracker_id, frame_index)
    IN  IF class_id = CLASS_BUCKET_DUMPING
        THEN IF DumpDiabaikan(self, dump_id, confidence)
             THEN [obj |-> self, ret |-> FALSE]
             ELSE LET s1 == [self EXCEPT !.active_cycle = AppendAktif(@, tracker_id,
                                 [ dump_id     |-> dump_id,
                                   frame_index |-> frame_index,
                                   confidence  |-> confidence ])]
                      r == IF DumpLebihBaik(s1.excavators[tracker_id], confidence)
                           THEN GantiBestDump(s1, tracker_id, dump_id, frame_index,
                                              confidence)
                           ELSE [obj |-> s1, ret |-> FALSE]
                  IN  [obj |-> [r.obj EXCEPT !.counted_dumps = @ \cup {dump_id}],
                       ret |-> r.ret]
        ELSE [obj |-> self, ret |-> FALSE]

\* Mutant of PassingSelesaikanSiklus: the best candidate is kept.
PassingSelesaikanSiklus_TanpaResetBest(self, tracker_id) ==
    IF tracker_id \in DOMAIN self.active_cycle
    THEN [self EXCEPT !.active_cycle = DictSet(@, tracker_id, <<>>)]
    ELSE self

\* PenghitungPassing.selesaikan_siklus
PassingSelesaikanSiklus(self, tracker_id) ==
    IF tracker_id \in DOMAIN self.active_cycle
    THEN [self EXCEPT
            !.active_cycle = DictSet(@, tracker_id, <<>>),
            !.excavators =
                IF tracker_id \in DOMAIN @
                THEN [@ EXCEPT ![tracker_id].best_dump = None]
                ELSE @]
    ELSE self

\* Mutant of ResetAllCounters: the seen-set is kept.
ResetAllCounters_TanpaSeenSet(self) ==
    [self EXCEPT
       !.excavators = [tid \in DOMAIN @ |->
                         [@[tid] EXCEPT !.passing_count = 0, !.best_dump = None]],
       !.total_passing = 0,
       !.active_cycle = EmptyDict]

\* Mutant of ResetAllCounters: total_passing is not cleared.
ResetAllCounters_TanpaTotal(self) ==
    [self EXCEPT
       !.excavators = [tid \in DOMAIN @ |->
                         [@[tid] EXCEPT !.passing_count = 0, !.best_dump = None]],
       !.active_cycle = EmptyDict,
       !.counted_dumps = {}]

\* PenghitungPassing.reset_all_counters
ResetAllCounters(self) ==
    [self EXCEPT
       !.excavators = [tid \in DOMAIN @ |->
                         [@[tid] EXCEPT !.passing_count = 0, !.best_dump = None]],
       !.total_passing = 0,
       !.active_cycle = EmptyDict,
       !.counted_dumps = {}]

\* PenghitungPassing.dapatkan_passing_count, for a tracker id (line 187; with
\* None the method returns total_passing)
DapatkanPassingCount(self, tracker_id) ==
    IF tracker_id \in DOMAIN self.excavators
    THEN self.excavators[tracker_id].passing_count ELSE 0

\* ====================================================== the driving loops

\* ExcavatorDetector.__init__: self.siklus_dimulai_dari
SIKLUS_DIMULAI_DARI == 1

\* The truck tracker's output for one frame: every tracked truck once, in any
\* order.  truck_full detections only: for the other truck class (5) the
\* counter creates the truck's record and does nothing else.
TruckDetections ==
    [tracker_id : TrackerIds, class_id : {CLASS_TRUCK_FULL}, confidence : Confidences]

\* The bucket tracker's output for one frame: digging and dumping buckets.
\* Neither counter reads the confidence of a digging bucket, so digging
\* buckets come with one confidence.
BucketDetections ==
    [tracker_id : TrackerIds, class_id : {CLASS_BUCKET_DIGGING},
     confidence : {MIN_CONFIDENCE}]
    \cup [tracker_id : TrackerIds, class_id : {CLASS_BUCKET_DUMPING},
          confidence : Confidences]

\* A tracker gives every tracked object of a frame its own tracker id.
TrackedLists(detections) ==
    {<<>>} \cup {<<a>> : a \in detections}
           \cup {p \in detections \X detections : p[1].tracker_id # p[2].tracker_id}

\* One entry of the record of counter calls made while a frame is processed.
Panggilan(op, det, ret) ==
    [op |-> op, tracker_id |-> det.tracker_id, class_id |-> det.class_id, ret |-> ret]

\* The objects and locals the loops of a frame work on, and `calls`, the
\* record of the counter calls made so far in the frame.
LoopState(pp, pr, disp, terakhir, st, events) ==
    [ penghitung_passing |-> pp,
      penghitung_ritase  |-> pr,
      display_ritase     |-> disp,
      siklus_terakhir    |-> terakhir,
      stats              |-> st,
      ritase_events      |-> events,
      ritase_baru_terdeteksi |-> FALSE,
      calls              |-> <<>> ]

NoDet == [tracker_id |-> 0, class_id |-> 0]

\* Mutant of RitaseBaruTerdeteksi: the counters are not reset.
RitaseBaruTerdeteksi_TanpaReset(d, det, frame_index, nomor_siklus_awal) ==
    [d EXCEPT
       !.ritase_baru_terdeteksi = TRUE,
       !.stats.ritase_detections = @ + 1,
       !.ritase_events = Append(@, [ Nomor      |-> d.stats.ritase_detections + 1,
                                     Frame      |-> frame_index,
                                     Confidence |-> det.confidence,
                                     tracker_id |-> det.tracker_id ]),
       !.display_ritase = 1,
       !.siklus_terakhir = nomor_siklus_awal]

\* detector.py lines 379-413: a new ritase was reported for a truck detection.
\* (The "Detik" field of the event is frame_index / fps and is left out.)
RitaseBaruTerdeteksi(d, det, frame_index, nomor_siklus_awal) ==
    [d EXCEPT
       !.ritase_baru_terdeteksi = TRUE,
       !.stats.ritase_detections = @ + 1,
       !.ritase_events = Append(@, [ Nomor      |-> d.stats.ritase_detections + 1,
                                     Frame      |-> frame_index,
                                     Confidence |-> det.confidence,
                                     tracker_id |-> det.tracker_id ]),
       !.display_ritase = 1,
       !.siklus_terakhir = nomor_siklus_awal,
       !.penghitung_passing = ResetAllCounters(@),
       !.penghitung_ritase = ResetCounters(@),
       !.calls = @ \o << Panggilan("passing.reset_all_counters", NoDet, FALSE),
                         Panggilan("ritase.reset_counters", NoDet, FALSE) >>]

\* detector.py lines 372-413: the loop over the tracked trucks, from the i-th.
RECURSIVE TruckLoop(_, _, _, _, _)
TruckLoop(d, tracked_truck, i, frame_index, nomor_siklus_awal) ==
    IF i > Len(tracked_truck) THEN d
    ELSE LET det == tracked_truck[i]
             r == RitaseProsesDeteksi(d.penghitung_ritase, det.tracker_id, det.class_id,
                                      frame_index, det.confidence)
             d1 == [d EXCEPT !.penghitung_ritase = r.obj,
                             !.calls = Append(@, Panggilan("ritase.proses_deteksi", det, r.ret))]
             d2 == IF r.ret
                   THEN RitaseBaruTerdeteksi(d1, det, frame_index, nomor_siklus_awal)
                   ELSE d1
         IN  TruckLoop(d2, tracked_truck, i + 1, frame_index, nomor_siklus_awal)

\* detector.py lines 416-419: every tracked bucket is sent to the ritase
\* counter, from the i-th.
RECURSIVE BucketRitaseLoop(_, _, _, _)
BucketRitaseLoop(d, tracked_bucket, i, frame_index) ==
    IF i > Len(tracked_bucket) THEN d
    ELSE LET det == tracked_bucket[i]
             r == RitaseProsesDeteksi(d.penghitung_ritase, det.tracker_id, det.class_id,
                                      frame_index, det.confidence)
         IN  BucketRitaseLoop(
                [d EXCEPT !.penghitung_ritase = r.obj,
                          !.calls = Append(@, Panggilan("ritase.proses_deteksi", det, r.ret))],
                tracked_bucket, i + 1, frame_index)

\* Mutant of AkhiriSiklusDigging: the passing cycle is never ended.
AkhiriSiklusDigging_TidakPernah(d, det) == d

\* detector.py lines 426-427 (main.py lines 301-302): a digging bucket ends
\* the previous passing cycle of its tracker.
AkhiriSiklusDigging(d, det) ==
    IF det.class_id = CLASS_BUCKET_DIGGING
    THEN [d EXCEPT
            !.penghitung_passing = PassingSelesaikanSiklus(@, det.tracker_id),
            !.calls = Append(@, Panggilan("passing.selesaikan_siklus", det, FALSE))]
    ELSE d

\* detector.py lines 422-449 (main.py lines 297-324): the passing loop over
\* the tracked buckets, from the i-th.  passing_events gets one entry with
\* every increment of stats["passing_detections"].
RECURSIVE BucketPassingLoop(_, _, _, _)
BucketPassingLoop(d, tracked_bucket, i, frame_index) ==
    IF i > Len(tracked_bucket) THEN d
    ELSE LET det == tracked_bucket[i]
             d1 == AkhiriSiklusDigging(d, det)
             r == PassingProsesDeteksi(d1.penghitung_passing, det.tracker_id,
                                       det.class_id, frame_index, det.confidence)
             d2 == [d1 EXCEPT
                      !.penghitung_passing = r.obj,
                      !.calls = Append(@, Panggilan("passing.proses_deteksi", det, r.ret)),
                      !.stats.passing_detections = IF r.ret THEN @ + 1 ELSE @]
         IN  BucketPassingLoop(d2, tracked_bucket, i + 1, frame_index)

\* Mutant of PerbaruiTampilan: the indicator is never switched off.
PerbaruiTampilan_TidakPernahMati(d) == d

\* detector.py lines 479-485: the cycle number shown and the ritase indicator.
PerbaruiTampilan(d) ==
    LET nomor_siklus == d.penghitung_ritase.nomor_siklus + SIKLUS_DIMULAI_DARI
    IN  IF nomor_siklus > d.siklus_terakhir + 1
        THEN [d EXCEPT !.display_ritase = 0,
                       !.siklus_terakhir = nomor_siklus - 1]
        ELSE d

\* Mutant of ProcessFrame: the passing loop runs before the buckets are sent
\* to the ritase counter.
ProcessFrame_PassingDulu(d, tracked_truck, tracked_bucket, frame_index) ==
    LET nomor_siklus_awal == d.penghitung_ritase.nomor_siklus
        d1 == TruckLoop(d, tracked_truck, 1, frame_index, nomor_siklus_awal)
        d2 == BucketPassingLoop(d1, tracked_bucket, 1, frame_index)
        d3 == BucketRitaseLoop(d2, tracked_bucket, 1, frame_index)
    IN  PerbaruiTampilan(d3)

\* ExcavatorDetector._process_frame (detector.py lines 362-485) on the
\* trackers' output for the frame.
ProcessFrame(d, tracked_truck, tracked_bucket, frame_index) ==
    LET nomor_siklus_awal == d.penghitung_ritase.nomor_siklus
        d1 == TruckLoop(d, tracked_truck, 1, frame_index, nomor_siklus_awal)
        d2 == BucketRitaseLoop(d1, tracked_bucket, 1, frame_index)
        d3 == BucketPassingLoop(d2, tracked_bucket, 1, frame_index)
    IN  PerbaruiTampilan(d3)

\* _process_frame when an annotator raises (detector.py lines 452-473): the
\* counters were called for the frame, the except clause of line 504 ends the
\* frame and lines 479-485 are not run.  With no tracked object this is also
\* the frame in which predict or a tracker raises (lines 346-363).
ProcessFrameException(d, tracked_truck, tracked_bucket, frame_index) ==
    LET nomor_siklus_awal == d.penghitung_ritase.nomor_siklus
        d1 == TruckLoop(d, tracked_truck, 1, frame_index, nomor_siklus_awal)
        d2 == BucketRitaseLoop(d1, tracked_bucket, 1, frame_index)
    IN  BucketPassingLoop(d2, tracked_bucket, 1, frame_index)

\* main.py lines 327-351: the loop over the tracked trucks, from the i-th.
RECURSIVE MainTruckLoop(_, _, _, _)
MainTruckLoop(d, tracked_truck, i, frame_index) ==
    IF i > Len(tracked_truck) THEN d
    ELSE LET det == tracked_truck[i]
             r == RitaseProsesDeteksi(d.penghitung_ritase, det.tracker_id, det.class_id,
                                      frame_index, det.confidence)
             d1 == [d EXCEPT !.penghitung_ritase = r.obj,
                             !.calls = Append(@, Panggilan("ritase.proses_deteksi", det, r.ret))]
             d2 == IF r.ret
                   THEN [d1 EXCEPT
                           !.ritase_baru_terdeteksi = TRUE,
                           !.stats.ritase_detections = @ + 1,
                           !.ritase_events =
                               Append(@, [ Nomor      |-> d1.stats.ritase_detections + 1,
                                           Frame      |-> frame_index,
                                           Confidence |-> det.confidence,
                                           tracker_id |-> det.tracker_id ])]
                   ELSE d1
         IN  MainTruckLoop(d2, tracked_truck, i + 1, frame_index)

\* proses_frame of the standalone script (main.py lines 288-357).
ProsesFrame(d, tracked_truck, tracked_bucket, frame_index) ==
    LET d1 == BucketPassingLoop(d, tracked_bucket, 1, frame_index)
        d2 == MainTruckLoop(d1, tracked_truck, 1, frame_index)
    IN  BucketRitaseLoop(d2, tracked_bucket, 1, frame_index)

\* ================================================================== state

VARIABLES
    penghitung_passing,    \* the PenghitungPassing object
    penghitung_ritase,     \* the PenghitungRitase object
    last,                  \* the call made last: method, tracker id, returned
                           \* value and the branch of the code it took
    n_ops,                 \* number of calls made so far
    ritase_di_siklus,      \* history: calls that returned True since
                           \* nomor_siklus last changed
    jumlah_awal_siklus,    \* history: sum of ritase_count when the current
                           \* global cycle began
    reset_setelah_ritase,  \* history: reset_counters was called in the current
                           \* global cycle after its ritase was credited
    terhitung_sebelum_reset, \* history: counted_dumps as it was when
                           \* reset_all_counters was last called
    next_frame_index,      \* run_detection: the frame_index of the next frame
    display_ritase,        \* ExcavatorDetector.display_ritase
    siklus_terakhir,       \* ExcavatorDetector.siklus_terakhir
    stats,                 \* run_detection: the stats dict (event counters)
    ritase_events,         \* run_detection: the ritase_events list
    results,               \* run_detection: the results dict, None while the
                           \* frames are being processed
    id_dikreditkan,        \* history: identities of the detections for which
                           \* penghitung_ritase.proses_deteksi returned True
                           \* since construction or the last reset_statistik
    id_ditukar             \* history: identities of the detections swapped in
                           \* as better candidates since then

passing_vars == <<penghitung_passing, terhitung_sebelum_reset>>

detector_vars == <<next_frame_index, display_ritase, siklus_terakhir, stats,
                   ritase_events, results>>

vars == <<penghitung_passing, penghitung_ritase, last, n_ops,
          ritase_di_siklus, jumlah_awal_siklus, reset_setelah_ritase,
          terhitung_sebelum_reset, detector_vars, id_dikreditkan, id_ditukar>>

id_vars == <<id_dikreditkan, id_ditukar>>

ritase_vars == <<penghitung_ritase, ritase_di_siklus, jumlah_awal_siklus,
                 reset_setelah_ritase, id_vars>>

Call(op, tracker_id, ret, jalur) ==
    [ op         |-> op,
      tracker_id |-> tracker_id,
      ret        |-> ret,
      jalur      |-> jalur ]

RECURSIVE SumOver(_, _, _)
SumOver(d, ids, field) ==
    IF ids = {} THEN 0
    ELSE LET x == CHOOSE y \in ids : TRUE
         IN  d[x][field] + SumOver(d, ids \ {x}, field)

\* sum(t["ritase_count"] for t in data_truk.values())
JumlahRitaseTruck(self) == SumOver(self.data_truk, DOMAIN self.data_truk, "ritase_count")

\* sum(e["passing_count"] for e in excavators.values())
JumlahPassingExcavator(self) ==
    SumOver(self.excavators, DOMAIN self.excavators, "passing_count")

\* The branch PenghitungRitase.proses_deteksi takes on a call.
RitaseJalur(self, tracker_id, class_id, frame_index, confidence) ==
    IF class_id = CLASS_TRUCK_FULL
    THEN IF self.siklus_berjalan_punya_ritase
         THEN IF KandidatLebihBaik(self, confidence)
              THEN "better_candidate" ELSE "rejected"
         ELSE IF LolosValidasi(self, tracker_id, frame_index, confidence)
              THEN "accepted_as_primary" ELSE "ignored"
    ELSE IF class_id = CLASS_BUCKET_DUMPING
    THEN IF AdaAktivitas(self, TrukDenganSiklusAktif(self))
         THEN "cycle_closed" ELSE "close_noop"
    ELSE "other_class"

\* The branch PenghitungPassing.proses_deteksi takes on a call.
PassingJalur(self, tracker_id, class_id, frame_index, confidence) ==
    IF class_id = CLASS_BUCKET_DUMPING
    THEN IF DumpDiabaikan(self, FormatId(tracker_id, frame_index), confidence)
         THEN "ignored"
         ELSE IF tracker_id \notin DOMAIN self.excavators
                 \/ self.excavators[tracker_id].best_dump = None
         THEN "new_passing"
         ELSE IF confidence > self.excavators[tracker_id].best_dump.confidence
         THEN "better_candidate" ELSE "not_better"
    ELSE "other_class"

Init ==
    /\ penghitung_passing = PassingBaru(MIN_CONFIDENCE)
    /\ penghitung_ritase = RitaseBaru(MIN_CONFIDENCE)
    /\ last = Call("init", 0, FALSE, "none")
    /\ n_ops = 0
    /\ ritase_di_siklus = 0
    /\ jumlah_awal_siklus = 0
    /\ reset_setelah_ritase = FALSE
    /\ terhitung_sebelum_reset = {}
    /\ next_frame_index = 0
    /\ display_ritase = 0
    /\ siklus_terakhir = 0
    /\ stats = [ritase_detections |-> 0, passing_detections |-> 0]
    /\ ritase_events = <<>>
    /\ results = None
    /\ id_dikreditkan = {}
    /\ id_ditukar = {}

\* ------------------------------------------------ PenghitungPassing calls

\* penghitung_passing.proses_deteksi(tracker_id, class_id, frame_index, confidence)
PassingProses ==
    /\ n_ops < MaxOps
    /\ \E tracker_id \in TrackerIds, class_id \in ClassIds,
          frame_index \in FrameIdx, confidence \in Confidences :
         LET r == PassingProsesDeteksi(penghitung_passing, tracker_id, class_id,
                                       frame_index, confidence)
         IN  /\ penghitung_passing' = r.obj
             /\ last' = Call("passing.proses_deteksi", tracker_id, r.ret,
                             PassingJalur(penghitung_passing, tracker_id, class_id,
                                          frame_index, confidence))
    /\ n_ops' = n_ops + 1
    /\ UNCHANGED <<ritase_vars, terhitung_sebelum_reset, detector_vars>>

\* penghitung_passing.selesaikan_siklus(tracker_id)
PassingEndCycle ==
    /\ n_ops < MaxOps
    /\ \E tracker_id \in TrackerIds :
         /\ penghitung_passing' = PassingSelesaikanSiklus(penghitung_passing, tracker_id)
         /\ last' = Call("passing.selesaikan_siklus", tracker_id, FALSE, "none")
    /\ n_ops' = n_ops + 1
    /\ UNCHANGED <<ritase_vars, terhitung_sebelum_reset, detector_vars>>

\* penghitung_passing.reset_all_counters()
PassingResetAll ==
    /\ n_ops < MaxOps
    /\ penghitung_passing' = ResetAllCounters(penghitung_passing)
    /\ last' = Call("passing.reset_all_counters", 0, FALSE, "none")
    /\ n_ops' = n_ops + 1
    /\ terhitung_sebelum_reset' = penghitung_passing.counted_dumps
    /\ UNCHANGED <<ritase_vars, detector_vars>>

\* ------------------------------------------------- PenghitungRitase calls

\* The history variables after a call that took the counter from `pre` to
\* `post` and returned `ret`.
RitaseHistory(pre, post, ret) ==
    /\ ritase_di_siklus' =
          IF post.nomor_siklus # pre.nomor_siklus THEN 0
          ELSE ritase_di_siklus + (IF ret THEN 1 ELSE 0)
    /\ jumlah_awal_siklus' =
          IF post.nomor_siklus # pre.nomor_siklus
          THEN JumlahRitaseTruck(post) ELSE jumlah_awal_siklus
    /\ reset_setelah_ritase' =
          IF post.nomor_siklus # pre.nomor_siklus THEN FALSE
          ELSE reset_setelah_ritase

\* penghitung_ritase.proses_deteksi(tracker_id, class_id, frame_index, confidence)
RitaseProses ==
    /\ n_ops < MaxOps
    /\ \E tracker_id \in TrackerIds, class_id \in ClassIds,
          frame_index \in FrameIdx, confidence \in Confidences :
         LET r == RitaseProsesDeteksi(penghitung_ritase, tracker_id, class_id,
                                      frame_index, confidence)
         IN  /\ penghitung_ritase' = r.obj
             /\ last' = Call("ritase.proses_deteksi", tracker_id, r.ret,
                             RitaseJalur(penghitung_ritase, tracker_id, class_id,
                                         frame_index, confidence))
             /\ RitaseHistory(penghitung_ritase, r.obj, r.ret)
             /\ id_dikreditkan' =
                   IF r.ret THEN id_dikreditkan \cup {FormatId(tracker_id, frame_index)}
                   ELSE id_dikreditkan
             /\ id_ditukar' =
                   IF RitaseJalur(penghitung_ritase, tracker_id, class_id,
                                  frame_index, confidence) = "better_candidate"
                   THEN id_ditukar \cup {FormatId(tracker_id, frame_index)}
                   ELSE id_ditukar
    /\ n_ops' = n_ops + 1
    /\ UNCHANGED <<passing_vars, detector_vars>>

\* penghitung_ritase.selesaikan_siklus_manual(tracker_id, frame_index)
RitaseManualClose ==
    /\ n_ops < MaxOps
    /\ \E tracker_id \in TrackerIds, frame_index \in FrameIdx :
         /\ penghitung_ritase' =
               SelesaikanSiklusManual(penghitung_ritase, tracker_id, frame_index)
         /\ last' = Call("ritase.selesaikan_siklus_manual", tracker_id, FALSE, "none")
    /\ n_ops' = n_ops + 1
    /\ UNCHANGED <<passing_vars, detector_vars, ritase_di_siklus,
                   jumlah_awal_siklus, reset_setelah_ritase, id_vars>>

\* penghitung_ritase.reset_counters()
RitaseResetCounters ==
    /\ n_ops < MaxOps
    /\ penghitung_ritase' = ResetCounters(penghitung_ritase)
    /\ last' = Call("ritase.reset_counters", 0, FALSE, "none")
    /\ n_ops' = n_ops + 1
    /\ jumlah_awal_siklus' = 0
    /\ reset_setelah_ritase' =
          (reset_setelah_ritase \/ penghitung_ritase.siklus_berjalan_punya_ritase)
    /\ UNCHANGED <<passing_vars, detector_vars, ritase_di_siklus, id_vars>>

\* penghitung_ritase.reset_statistik(): the counter is as constructed again
RitaseResetStatistik ==
    /\ n_ops < MaxOps
    /\ penghitung_ritase' = ResetStatistik(penghitung_ritase)
    /\ last' = Call("ritase.reset_statistik", 0, FALSE,
                    IF penghitung_ritase.nomor_siklus > 0 THEN "cycles_cleared"
                    ELSE "none")
    /\ n_ops' = n_ops + 1
    /\ ritase_di_siklus' = 0
    /\ jumlah_awal_siklus' = 0
    /\ reset_setelah_ritase' = FALSE
    /\ id_dikreditkan' = {}
    /\ id_ditukar' = {}
    /\ UNCHANGED <<passing_vars, detector_vars>>

\* ------------------------------------------------------ the driving loops

\* The loop state a frame starts from.
FrameAwal ==
    LoopState(penghitung_passing, penghitung_ritase, display_ritase,
              siklus_terakhir, stats, ritase_events)

\* The variables after a frame that ended in loop state d.  The counters'
\* history variables belong to the specifications of single calls and are
\* left alone.
FrameSelesai(op, d) ==
    /\ penghitung_passing' = d.penghitung_passing
    /\ penghitung_ritase' = d.penghitung_ritase
    /\ display_ritase' = d.display_ritase
    /\ siklus_terakhir' = d.siklus_terakhir
    /\ stats' = d.stats
    /\ ritase_events' = d.ritase_events
    /\ next_frame_index' = next_frame_index + 1
    /\ last' = Call(op, 0, d.ritase_baru_terdeteksi,
                    IF last.op = "detector._process_frame.except"
                    THEN "after_exception" ELSE "none")
    /\ n_ops' = n_ops + 1
    /\ UNCHANGED <<results, ritase_di_siklus, jumlah_awal_siklus,
                   reset_setelah_ritase, terhitung_sebelum_reset, id_vars>>

\* run_detection, one iteration of the loop over the frames (detector.py
\* lines 174-212): _process_frame on what the trackers return for the frame.
DetectorFrame ==
    /\ results = None
    /\ next_frame_index < MaxFrames
    /\ \E tracked_truck \in TrackedLists(TruckDetections),
          tracked_bucket \in TrackedLists(BucketDetections) :
         FrameSelesai("detector._process_frame",
                      ProcessFrame(FrameAwal, tracked_truck, tracked_bucket,
                                   next_frame_index))

\* run_detection, one iteration of the loop over the frames in which
\* _process_frame ends in its except clause.
DetectorFrameException ==
    /\ results = None
    /\ next_frame_index < MaxFrames
    /\ \E tracked_truck \in TrackedLists(TruckDetections),
          tracked_bucket \in TrackedLists(BucketDetections) :
         FrameSelesai("detector._process_frame.except",
                      ProcessFrameException(FrameAwal, tracked_truck, tracked_bucket,
                                            next_frame_index))

\* The results dict of a run: the two totals reported and the events.
Results ==
    [ passing_stats |-> [total_passing |-> penghitung_passing.total_passing],
      ritase_stats  |-> [total_ritase |-> penghitung_ritase.total_ritase],
      stats         |-> stats,
      ritase_events |-> ritase_events ]

\* run_detection after the last frame (detector.py lines 218-253).
DetectorSelesai ==
    /\ results = None
    /\ results' = Results
    /\ last' = Call("detector.run_detection", 0, FALSE, "none")
    /\ UNCHANGED <<penghitung_passing, penghitung_ritase, n_ops, next_frame_index,
                   display_ritase, siklus_terakhir, stats, ritase_events,
                   ritase_di_siklus, jumlah_awal_siklus, reset_setelah_ritase,
                   terhitung_sebelum_reset, id_vars>>

\* main.py, one iteration of the loop over the frames (lines 460-497).
MainFrame ==
    /\ results = None
    /\ next_frame_index < MaxFrames
    /\ \E tracked_truck \in TrackedLists(TruckDetections),
          tracked_bucket \in TrackedLists(BucketDetections) :
         FrameSelesai("main.proses_frame",
                      ProsesFrame(FrameAwal, tracked_truck, tracked_bucket,
                                  next_frame_index))

\* main.py after the last frame (lines 499-517).
MainSelesai ==
    /\ results = None
    /\ results' = Results
    /\ last' = Call("main.main", 0, FALSE, "none")
    /\ UNCHANGED <<penghitung_passing, penghitung_ritase, n_ops, next_frame_index,
                   display_ritase, siklus_terakhir, stats, ritase_events,
                   ritase_di_siklus, jumlah_awal_siklus, reset_setelah_ritase,
                   terhitung_sebelum_reset, id_vars>>

\* ------------------------------------------------------- specifications

NextPassing == PassingProses \/ PassingEndCycle \/ PassingResetAll

\* Calls of proses_deteksi and selesaikan_siklus_manual only.
NextRitaseTanpaReset == RitaseProses \/ RitaseManualClose

\* Calls of process_detection, manual_close and reset_counters only.
NextRitaseInti == RitaseProses \/ RitaseManualClose \/ RitaseResetCounters

NextRitase == NextRitaseInti \/ RitaseResetStatistik

\* The methods of the two classes, as named in `last.op`.
PassingOps == {"passing.proses_deteksi", "passing.selesaikan_siklus",
               "passing.reset_all_counters"}
RitaseOps == {"ritase.proses_deteksi", "ritase.selesaikan_siklus_manual",
              "ritase.reset_counters", "ritase.reset_statistik"}

\* The two counters share no state and never call each other, so the states
\* either of them reaches do not depend on the calls made on the other: a
\* run drives one of the two objects.
Next ==
    \/ last.op \notin RitaseOps /\ NextPassing
    \/ last.op \notin PassingOps /\ NextRitase

NextDetector == DetectorFrame \/ DetectorSelesai

\* A detection run in which frames may end in the except clause.
NextDetectorException == DetectorFrame \/ DetectorFrameException \/ DetectorSelesai

NextMain == MainFrame \/ MainSelesai

\* The steps of the two programs, as named in `last.op`.
DetectorOps == {"detector._process_frame", "detector._process_frame.except",
                "detector.run_detection"}
MainOps == {"main.proses_frame", "main.main"}

\* A run is a run of the application or a run of the standalone script.
NextLoop ==
    \/ last.op \notin MainOps /\ NextDetector
    \/ last.op \notin DetectorOps /\ NextMain

\* A detection run of the application: ExcavatorDetector.run_detection.
SpecDetector == Init /\ [][NextDetector]_vars

\* A detection run of the application in which any frame may raise.
SpecDetectorException == Init /\ [][NextDetectorException]_vars

\* A run of the standalone script main.py.
SpecMain == Init /\ [][NextMain]_vars

\* A run of either program.
SpecLoop == Init /\ [][NextLoop]_vars

\* Any sequence of calls on a PenghitungPassing.
SpecPassing == Init /\ [][NextPassing]_vars

\* Any sequence of proses_deteksi and selesaikan_siklus_manual calls on a
\* PenghitungRitase: no reset is called.
SpecRitaseTanpaReset == Init /\ [][NextRitaseTanpaReset]_vars

\* Any sequence of proses_deteksi, selesaikan_siklus_manual and reset_counters
\* calls on a PenghitungRitase.
SpecRitaseInti == Init /\ [][NextRitaseInti]_vars

\* Any sequence of calls on a PenghitungRitase.
SpecRitase == Init /\ [][NextRitase]_vars

\* Any sequence of calls on either counter.
Spec == Init /\ [][Next]_vars

\* ================================================================= claims

\* Shorthands for the state of the two objects.
PP == penghitung_passing
PR == penghitung_ritase

\* The trucks that sent a truck_full detection in the current global cycle.
TrukDiJejak ==
    {PR.kandidat_siklus[i].tracker_id : i \in 1..Len(PR.kandidat_siklus)}

\* C1: at most one proses_deteksi call returns True between two consecutive
\* increments of nomor_siklus (and before the first), for any sequence of
\* proses_deteksi, selesaikan_siklus_manual and reset_counters calls, however
\* many trucks send truck_full detections; total_ritase is raised only by
\* such a call and by 1, so by at most 1 per global cycle.
C1_SatuRitasePerSiklus ==
    /\ ritase_di_siklus <= 1
    /\ \A t \in TrackerIds, c \in ClassIds, f \in FrameIdx, k \in Confidences :
         LET r == RitaseProsesDeteksi(PR, t, c, f, k)
         IN  /\ r.obj.total_ritase <= PR.total_ritase + 1
             /\ r.obj.total_ritase > PR.total_ritase => r.ret
    /\ \A t \in TrackerIds, f \in FrameIdx :
         SelesaikanSiklusManual(PR, t, f).total_ritase <= PR.total_ritase
    /\ ResetCounters(PR).total_ritase <= PR.total_ritase

\* C1 witness: a ritase was credited in the current cycle and a further
\* truck_full detection of another truck was processed in the same cycle.
C1_Witness ==
    /\ ritase_di_siklus = 1
    /\ last.op = "ritase.proses_deteksi"
    /\ last.jalur \in {"better_candidate", "rejected"}
    /\ Cardinality(TrukDiJejak) = 2

\* C2: total_passing equals the sum of passing_count over all excavators,
\* after any sequence of proses_deteksi, selesaikan_siklus and
\* reset_all_counters calls.
C2_TotalSamaDenganJumlah == PP.total_passing = JumlahPassingExcavator(PP)

\* C2 witness: two excavators have a passing each, after a reset.
C2_Witness ==
    /\ PP.total_passing = 2
    /\ \A t \in TrackerIds :
         t \in DOMAIN PP.excavators /\ PP.excavators[t].passing_count = 1

\* The entity's active-cycle list is empty: no dump was accepted for it since
\* construction, the last selesaikan_siklus or the last reset.
SiklusKosong(self, tracker_id) ==
    \/ tracker_id \notin DOMAIN self.active_cycle
    \/ self.active_cycle[tracker_id] = <<>>

\* C3: within one cycle of an entity, only the first accepted dump raises the
\* entity's count and total_passing and returns True; a later accepted dump
\* returns False and leaves both unchanged, and replaces best_dump when its
\* confidence is strictly higher.
C3_HanyaDumpPertama ==
    \A t \in TrackerIds, f \in FrameIdx, k \in Confidences :
      LET r == PassingProsesDeteksi(PP, t, CLASS_BUCKET_DUMPING, f, k)
          diterima == FormatId(t, f) \notin PP.counted_dumps /\ k >= PP.min_confidence
      IN  diterima =>
            IF SiklusKosong(PP, t)
            THEN /\ r.ret
                 /\ DapatkanPassingCount(r.obj, t) = DapatkanPassingCount(PP, t) + 1
                 /\ r.obj.total_passing = PP.total_passing + 1
            ELSE /\ ~r.ret
                 /\ DapatkanPassingCount(r.obj, t) = DapatkanPassingCount(PP, t)
                 /\ r.obj.total_passing = PP.total_passing
                 /\ k > PP.excavators[t].best_dump.confidence =>
                      /\ r.obj.excavators[t].best_dump.confidence = k
                      /\ r.obj.excavators[t].best_dump.frame_index = f

\* C3 witness: a later dump of the same cycle replaced the best candidate:
\* the entity's list holds two accepted dumps and its count is still 1.
C3_Witness ==
    /\ last.op = "passing.proses_deteksi"
    /\ last.jalur = "better_candidate"
    /\ ~last.ret
    /\ Len(PP.active_cycle[last.tracker_id]) = 2
    /\ PP.excavators[last.tracker_id].passing_count = 1
    /\ PP.total_passing = 1

\* C4: re-processing a detection whose (tracker_id, frame_index) identity is
\* already in the seen-set never changes any count, in either counter:
\* total_passing and every passing_count, total_ritase and every ritase_count
\* stay the same.
C4_IdentitasTerhitungTidakMengubah ==
    \A t \in TrackerIds, f \in FrameIdx, k \in Confidences :
      /\ FormatId(t, f) \in PP.counted_dumps =>
           LET r == PassingProsesDeteksi(PP, t, CLASS_BUCKET_DUMPING, f, k)
           IN  /\ r.obj.total_passing = PP.total_passing
               /\ \A e \in TrackerIds :
                    DapatkanPassingCount(r.obj, e) = DapatkanPassingCount(PP, e)
      /\ FormatId(t, f) \in PR.truk_full_terhitung =>
           LET r == RitaseProsesDeteksi(PR, t, CLASS_TRUCK_FULL, f, k)
           IN  /\ r.obj.total_ritase = PR.total_ritase
               /\ \A e \in TrackerIds :
                    DapatkanRitaseCount(r.obj, e) = DapatkanRitaseCount(PR, e)

\* sum of the ritase_count of all trucks that is attributable to the current
\* global cycle: what was added to the counts since the cycle began.
JumlahDiSiklus == JumlahRitaseTruck(PR) - jumlah_awal_siklus

\* C5 as stated: the sum of the counts attributable to the current global
\* cycle is 0 before the cycle's ritase is credited and exactly 1 after it,
\* whatever counter operations are called inside the cycle.
C5_JumlahSiklusSatu ==
    JumlahDiSiklus = IF PR.siklus_berjalan_punya_ritase THEN 1 ELSE 0

\* C5 amended: the sum attributable to the current global cycle is 0 before
\* the cycle's ritase is credited; after the credit it is exactly 1, and every
\* swap keeps it at 1, as long as reset_counters is not called after the
\* credit; once reset_counters was called in a credited cycle the sum is 0
\* until a swap raises it to 1, and it never exceeds 1.
C5_JumlahSiklusSatuTanpaReset ==
    /\ ~PR.siklus_berjalan_punya_ritase => JumlahDiSiklus = 0
    /\ PR.siklus_berjalan_punya_ritase /\ ~reset_setelah_ritase => JumlahDiSiklus = 1
    /\ PR.siklus_berjalan_punya_ritase /\ reset_setelah_ritase => JumlahDiSiklus \in {0, 1}

\* The trucks that hold a best_full of the current global cycle.
PemilikDiSiklus ==
    {t \in DOMAIN PR.data_truk :
        /\ PR.data_truk[t].best_full # None
        /\ PR.data_truk[t].best_full.cycle_number = PR.nomor_siklus}

\* C5 witness: the best candidate was swapped from one truck to another in a
\* cycle without reset_counters; the previous owner is back at 0.
C5_Witness ==
    /\ last.op = "ritase.proses_deteksi"
    /\ last.jalur = "better_candidate"
    /\ ~reset_setelah_ritase
    /\ Cardinality(PemilikDiSiklus) = 2
    /\ JumlahDiSiklus = 1
    /\ \E t \in PemilikDiSiklus : PR.data_truk[t].ritase_count = 0

\* C6: a closing signal (bucket_dumping) raises nomor_siklus by exactly 1 when
\* some truck has a non-empty active-cycle list or the global cycle has a
\* credited ritase; otherwise nomor_siklus and total_siklus_selesai stay as
\* they are.
C6_PenutupanMenaikkanNomor ==
    \A t \in TrackerIds, f \in FrameIdx, k \in Confidences :
      LET r == RitaseProsesDeteksi(PR, t, CLASS_BUCKET_DUMPING, f, k)
          aktif == \/ \E e \in DOMAIN PR.siklus_aktif : Len(PR.siklus_aktif[e]) > 0
                   \/ PR.siklus_berjalan_punya_ritase
      IN  IF aktif
          THEN r.obj.nomor_siklus = PR.nomor_siklus + 1
          ELSE /\ r.obj.nomor_siklus = PR.nomor_siklus
               /\ r.obj.total_siklus_selesai = PR.total_siklus_selesai

\* C6 witness: a credited cycle was closed (nomor_siklus = 1) and a further
\* closing signal then found no activity.
C6_Witness ==
    /\ last.op = "ritase.proses_deteksi"
    /\ last.jalur = "close_noop"
    /\ PR.nomor_siklus = 1
    /\ PR.total_siklus_selesai = 1
    /\ PR.total_ritase = 1

\* C7: once a global cycle has been closed, the next truck_full detection with
\* an unseen identity and a confidence of at least min_confidence returns True
\* and raises total_ritase by 1.
C7_RitaseSetelahPenutupan ==
    PR.nomor_siklus >= 1 /\ ritase_di_siklus = 0 =>
      \A t \in TrackerIds, f \in FrameIdx, k \in Confidences :
        LET r == RitaseProsesDeteksi(PR, t, CLASS_TRUCK_FULL, f, k)
        IN  FormatId(t, f) \notin PR.truk_full_terhitung
               /\ k >= PR.ambang_kepercayaan =>
              r.ret /\ r.obj.total_ritase = PR.total_ritase + 1

\* C7 witness: credit, close, credit: total_ritase = 2 and nomor_siklus = 1.
C7_Witness ==
    /\ last.op = "ritase.proses_deteksi"
    /\ last.jalur = "accepted_as_primary"
    /\ last.ret
    /\ PR.total_ritase = 2
    /\ PR.nomor_siklus = 1

\* C8: selesaikan_siklus(tracker_id) followed by a dump of that tracker with an
\* unseen identity and a confidence of at least min_confidence returns True
\* and raises the entity's count and total_passing by exactly 1, whatever the
\* entity's state and best candidate were when selesaikan_siklus was called.
C8_SiklusBaruSetelahSelesai ==
    \A t \in TrackerIds, f \in FrameIdx, k \in Confidences :
      LET s1 == PassingSelesaikanSiklus(PP, t)
          r == PassingProsesDeteksi(s1, t, CLASS_BUCKET_DUMPING, f, k)
      IN  FormatId(t, f) \notin PP.counted_dumps /\ k >= PP.min_confidence =>
            /\ r.ret
            /\ DapatkanPassingCount(r.obj, t) = DapatkanPassingCount(PP, t) + 1
            /\ r.obj.total_passing = PP.total_passing + 1

\* C8 witness: an entity whose previous cycle had a best candidate of the
\* highest confidence got a second passing from a dump of lower confidence,
\* which only selesaikan_siklus makes possible.
C8_Witness ==
    /\ last.op = "passing.proses_deteksi"
    /\ last.jalur = "new_passing"
    /\ last.ret
    /\ PP.excavators[last.tracker_id].passing_count = 2
    /\ PP.excavators[last.tracker_id].best_dump.confidence = 2
    /\ Len(PP.active_cycle[last.tracker_id]) = 1

\* The passing_count of no excavator is lower in `post` than in `pre`.
PassingTidakTurun(pre, post) ==
    \A e \in TrackerIds : DapatkanPassingCount(post, e) >= DapatkanPassingCount(pre, e)

\* The ritase_count of no truck is lower in `post` than in `pre`.
RitaseTidakTurun(pre, post) ==
    \A e \in TrackerIds : DapatkanRitaseCount(post, e) >= DapatkanRitaseCount(pre, e)

\* C9 as stated: no proses_deteksi, selesaikan_siklus or
\* selesaikan_siklus_manual call (no call other than the explicit resets)
\* lowers the passing_count or the ritase_count of any entity.
C9_HitunganTidakTurun ==
    /\ \A t \in TrackerIds, c \in ClassIds, f \in FrameIdx, k \in Confidences :
         /\ PassingTidakTurun(PP, PassingProsesDeteksi(PP, t, c, f, k).obj)
         /\ RitaseTidakTurun(PR, RitaseProsesDeteksi(PR, t, c, f, k).obj)
    /\ \A t \in TrackerIds : PassingTidakTurun(PP, PassingSelesaikanSiklus(PP, t))
    /\ \A t \in TrackerIds, f \in FrameIdx :
         RitaseTidakTurun(PR, SelesaikanSiklusManual(PR, t, f))

\* C9 amended: no call other than the explicit resets lowers a passing_count;
\* a ritase_count is lowered only by a truck_full detection that is swapped in
\* as the better candidate of a credited cycle, only for the truck of the
\* previous best, only when that is another truck, and by exactly 1.
C9_HitunganTurunHanyaSaatTukar ==
    /\ \A t \in TrackerIds, c \in ClassIds, f \in FrameIdx, k \in Confidences :
         /\ PassingTidakTurun(PP, PassingProsesDeteksi(PP, t, c, f, k).obj)
         /\ LET post == RitaseProsesDeteksi(PR, t, c, f, k).obj
            IN  \A e \in TrackerIds :
                  \/ DapatkanRitaseCount(post, e) >= DapatkanRitaseCount(PR, e)
                  \/ /\ c = CLASS_TRUCK_FULL
                     /\ PR.siklus_berjalan_punya_ritase
                     /\ PR.ritase_terbaik_di_siklus # None
                     /\ k > PR.ritase_terbaik_di_siklus.confidence
                     /\ e = PR.ritase_terbaik_di_siklus.tracker_id
                     /\ e # t
                     /\ DapatkanRitaseCount(post, e) = DapatkanRitaseCount(PR, e) - 1
    /\ \A t \in TrackerIds : PassingTidakTurun(PP, PassingSelesaikanSiklus(PP, t))
    /\ \A t \in TrackerIds, f \in FrameIdx :
         RitaseTidakTurun(PR, SelesaikanSiklusManual(PR, t, f))

\* C9 witness: a swap took the ritase from the previous best's truck, whose
\* count went from 1 back to 0.
C9_Witness ==
    /\ last.op = "ritase.proses_deteksi"
    /\ last.jalur = "better_candidate"
    /\ ~reset_setelah_ritase
    /\ PR.total_ritase = 1
    /\ \E e \in PemilikDiSiklus :
         /\ e # PR.ritase_terbaik_di_siklus.tracker_id
         /\ PR.data_truk[e].ritase_count = 0
         /\ PR.data_truk[PR.ritase_terbaik_di_siklus.tracker_id].ritase_count = 1

\* C10: total_ritase is raised only by a truck_full detection that is
\* processed while the global cycle has no credited ritase and that passes the
\* dedup and confidence checks, which is the call that returns True; a
\* truck_full detection processed while the cycle has a credited ritase
\* returns False and leaves total_ritase unchanged, swapped in or not.
C10_TotalHanyaRitasePertama ==
    /\ \A t \in TrackerIds, c \in ClassIds, f \in FrameIdx, k \in Confidences :
         LET r == RitaseProsesDeteksi(PR, t, c, f, k)
         IN  /\ r.obj.total_ritase # PR.total_ritase =>
                  /\ c = CLASS_TRUCK_FULL
                  /\ ~PR.siklus_berjalan_punya_ritase
                  /\ FormatId(t, f) \notin PR.truk_full_terhitung
                  /\ k >= PR.ambang_kepercayaan
                  /\ r.obj.total_ritase = PR.total_ritase + 1
             /\ r.ret <=> r.obj.total_ritase = PR.total_ritase + 1
             /\ c = CLASS_TRUCK_FULL /\ PR.siklus_berjalan_punya_ritase =>
                  ~r.ret /\ r.obj.total_ritase = PR.total_ritase
    /\ \A t \in TrackerIds, f \in FrameIdx :
         SelesaikanSiklusManual(PR, t, f).total_ritase = PR.total_ritase
    /\ ResetCounters(PR).total_ritase <= PR.total_ritase
    /\ ResetStatistik(PR).total_ritase <= PR.total_ritase

\* C10 witness: a truck_full detection was swapped in as the better candidate
\* of a credited cycle and total_ritase is still 1.
C10_Witness ==
    /\ last.op = "ritase.proses_deteksi"
    /\ last.jalur = "better_candidate"
    /\ ~last.ret
    /\ PR.total_ritase = 1
    /\ PR.ritase_terbaik_di_siklus.confidence = 3

\* C11: in PenghitungPassing, a bucket_dumping detection whose identity is in
\* counted_dumps or whose confidence is below min_confidence returns False and
\* changes nothing (total_passing, counted_dumps, active_cycle, and the count
\* and best_dump of every known excavator) except that an unseen tracker_id
\* gets its record, with count 0 and no best_dump.
C11_DumpDitolakTanpaPerubahan ==
    \A t \in TrackerIds, f \in FrameIdx, k \in Confidences :
      LET r == PassingProsesDeteksi(PP, t, CLASS_BUCKET_DUMPING, f, k)
      IN  FormatId(t, f) \in PP.counted_dumps \/ k < PP.min_confidence =>
            /\ ~r.ret
            /\ r.obj.total_passing = PP.total_passing
            /\ r.obj.counted_dumps = PP.counted_dumps
            /\ r.obj.active_cycle = PP.active_cycle
            /\ r.obj.min_confidence = PP.min_confidence
            /\ DOMAIN r.obj.excavators = DOMAIN PP.excavators \cup {t}
            /\ \A e \in DOMAIN PP.excavators : r.obj.excavators[e] = PP.excavators[e]
            /\ t \notin DOMAIN PP.excavators =>
                 r.obj.excavators[t] = [passing_count |-> 0, best_dump |-> None]

\* C11 witness: after a counted passing of one excavator, a rejected dump of
\* an unseen tracker created that tracker's record and nothing else.
C11_Witness ==
    /\ last.op = "passing.proses_deteksi"
    /\ last.jalur = "ignored"
    /\ ~last.ret
    /\ PP.total_passing = 1
    /\ Cardinality(PP.counted_dumps) = 1
    /\ PP.excavators[last.tracker_id] = [passing_count |-> 0, best_dump |-> None]
    /\ last.tracker_id \notin DOMAIN PP.active_cycle

\* C12: reset_all_counters sets every excavator's count to 0 and best_dump to
\* None, total_passing to 0, and empties active_cycle and counted_dumps, so a
\* dump identity that was counted before the reset is accepted and counted as
\* a new passing when it is fed again after it.
C12_ResetSemuaLaluHitungLagi ==
    LET s == ResetAllCounters(PP)
    IN  /\ \A e \in DOMAIN s.excavators :
             s.excavators[e] = [passing_count |-> 0, best_dump |-> None]
        /\ DOMAIN s.excavators = DOMAIN PP.excavators
        /\ s.total_passing = 0
        /\ s.active_cycle = EmptyDict
        /\ s.counted_dumps = {}
        /\ \A t \in TrackerIds, f \in FrameIdx, k \in Confidences :
             FormatId(t, f) \in PP.counted_dumps /\ k >= PP.min_confidence =>
               LET r == PassingProsesDeteksi(s, t, CLASS_BUCKET_DUMPING, f, k)
               IN  /\ r.ret
                   /\ r.obj.total_passing = 1
                   /\ r.obj.excavators[t].passing_count = 1
                   /\ FormatId(t, f) \in r.obj.counted_dumps

\* C12 witness: the dump counted last has an identity that was in
\* counted_dumps when reset_all_counters was called.
C12_Witness ==
    /\ last.op = "passing.proses_deteksi"
    /\ last.ret
    /\ PP.total_passing = 1
    /\ PP.excavators[last.tracker_id].best_dump.dump_id \in terhitung_sebelum_reset

\* `baru` is `lama` or has a strictly higher confidence, the confidence k of
\* the detection just processed; with k not above lama's it is `lama`.
PenggantiSah(lama, baru, k) ==
    /\ baru # None
    /\ baru = lama \/ (baru.confidence > lama.confidence /\ baru.confidence = k)
    /\ k <= lama.confidence => baru = lama

\* C13: within a cycle the best candidate's confidence never goes down, in
\* both counters: an existing best_dump of an excavator and an existing
\* ritase_terbaik_di_siklus are replaced only by a detection of strictly higher
\* confidence; a proses_deteksi call with an equal or lower confidence, and
\* any call that does not end the cycle, leaves them as they are.
C13_TerbaikTidakTurun ==
    /\ \A t \in TrackerIds, c \in ClassIds, f \in FrameIdx, k \in Confidences :
         /\ LET post == PassingProsesDeteksi(PP, t, c, f, k).obj
            IN  \A e \in DOMAIN PP.excavators :
                  PP.excavators[e].best_dump # None =>
                    /\ PenggantiSah(PP.excavators[e].best_dump,
                                    post.excavators[e].best_dump, k)
                    /\ e # t => post.excavators[e].best_dump = PP.excavators[e].best_dump
         /\ PR.ritase_terbaik_di_siklus # None /\ c # CLASS_BUCKET_DUMPING =>
              PenggantiSah(PR.ritase_terbaik_di_siklus,
                           RitaseProsesDeteksi(PR, t, c, f, k).obj.ritase_terbaik_di_siklus,
                           k)
    /\ \A t \in TrackerIds, f \in FrameIdx :
         SelesaikanSiklusManual(PR, t, f).ritase_terbaik_di_siklus
            = PR.ritase_terbaik_di_siklus
    /\ ResetCounters(PR).ritase_terbaik_di_siklus = PR.ritase_terbaik_di_siklus

\* C13 witness: a truck_full detection of another truck with the same
\* confidence as the cycle's best was processed and did not replace it.
C13_Witness ==
    /\ last.op = "ritase.proses_deteksi"
    /\ last.jalur = "rejected"
    /\ PR.ritase_terbaik_di_siklus.confidence = 2
    /\ PR.ritase_terbaik_di_siklus.tracker_id # last.tracker_id
    /\ PR.kandidat_siklus[Len(PR.kandidat_siklus)].confidence = 2
    /\ PR.kandidat_siklus[Len(PR.kandidat_siklus)].status = "rejected"

\* C14: after proses_deteksi has processed a bucket_dumping detection (any
\* tracker id, frame and confidence) the global cycle state is empty:
\* siklus_berjalan_punya_ritase is False, ritase_terbaik_di_siklus is None and
\* kandidat_siklus is empty, also when the closure found no activity.
C14_SiklusGlobalKosongSetelahDump ==
    \A t \in TrackerIds, f \in FrameIdx, k \in Confidences :
      LET post == RitaseProsesDeteksi(PR, t, CLASS_BUCKET_DUMPING, f, k).obj
      IN  /\ ~post.siklus_berjalan_punya_ritase
          /\ post.ritase_terbaik_di_siklus = None
          /\ post.kandidat_siklus = <<>>

\* C14 witness: a cycle whose trail held a credited ritase and a later
\* candidate was closed by a bucket_dumping detection.
C14_Witness ==
    /\ last.op = "ritase.proses_deteksi"
    /\ last.jalur = "cycle_closed"
    /\ PR.total_pencegahan_ganda = 1
    /\ PR.kandidat_siklus = <<>>
    /\ PR.ritase_terbaik_di_siklus = None
    /\ ~PR.siklus_berjalan_punya_ritase

\* C15: processing a bucket_dumping detection returns False and changes
\* neither total_ritase nor the ritase_count of any truck, whether or not the
\* closure had activity.
C15_DumpTidakMengubahHitungan ==
    \A t \in TrackerIds, f \in FrameIdx, k \in Confidences :
      LET r == RitaseProsesDeteksi(PR, t, CLASS_BUCKET_DUMPING, f, k)
      IN  /\ ~r.ret
          /\ r.obj.total_ritase = PR.total_ritase
          /\ \A e \in TrackerIds \cup DOMAIN PR.data_truk :
               DapatkanRitaseCount(r.obj, e) = DapatkanRitaseCount(PR, e)

\* C15 witness: a cycle with a credited ritase was closed and the truck still
\* has its count of 1.
C15_Witness ==
    /\ last.op = "ritase.proses_deteksi"
    /\ last.jalur = "cycle_closed"
    /\ ~last.ret
    /\ PR.total_ritase = 1
    /\ PR.nomor_siklus = 1
    /\ \E e \in DOMAIN PR.data_truk :
         /\ PR.data_truk[e].ritase_count = 1
         /\ PR.data_truk[e].last_cycle_number = 0

\* C20: reset_counters sets total_ritase and every truck's ritase_count to 0
\* and every truck's best_full to None, and leaves nomor_siklus,
\* total_siklus_selesai, truk_full_terhitung, siklus_berjalan_punya_ritase and
\* ritase_terbaik_di_siklus as they are; so once it was called in a cycle that
\* has a credited ritase, no call returns True and total_ritase stays 0 until
\* a closing signal ends the cycle.
C20_ResetCountersSebagian ==
    /\ LET s == ResetCounters(PR)
       IN  /\ s.total_ritase = 0
           /\ DOMAIN s.data_truk = DOMAIN PR.data_truk
           /\ \A e \in DOMAIN s.data_truk :
                /\ s.data_truk[e].ritase_count = 0
                /\ s.data_truk[e].best_full = None
           /\ s.nomor_siklus = PR.nomor_siklus
           /\ s.total_siklus_selesai = PR.total_siklus_selesai
           /\ s.truk_full_terhitung = PR.truk_full_terhitung
           /\ s.siklus_berjalan_punya_ritase = PR.siklus_berjalan_punya_ritase
           /\ s.ritase_terbaik_di_siklus = PR.ritase_terbaik_di_siklus
           /\ PR.siklus_berjalan_punya_ritase =>
                \A t \in TrackerIds, f \in FrameIdx, k \in Confidences :
                  LET r == RitaseProsesDeteksi(s, t, CLASS_TRUCK_FULL, f, k)
                  IN  ~r.ret /\ r.obj.total_ritase = 0
    /\ reset_setelah_ritase =>
         /\ PR.siklus_berjalan_punya_ritase
         /\ PR.total_ritase = 0
         /\ ritase_di_siklus = 1

\* C20 witness: after reset_counters in a credited cycle a truck_full
\* detection of higher confidence was swapped in: its truck has a count of 1,
\* total_ritase is still 0 and the cycle is still open.
C20_Witness ==
    /\ reset_setelah_ritase
    /\ last.op = "ritase.proses_deteksi"
    /\ last.jalur = "better_candidate"
    /\ PR.total_ritase = 0
    /\ PR.data_truk[last.tracker_id].ritase_count = 1
    /\ PR.truk_full_terhitung # {}

\* A frame can still be processed: the run has frames left.
SedangBerjalan == results = None /\ next_frame_index < MaxFrames

\* The run so far is one of the application / of the standalone script.
RunDetector == last.op \notin MainOps
RunMain == last.op \notin DetectorOps

\* Every proses_deteksi call of the ritase counter that returned True is
\* followed at once by reset_all_counters and reset_counters.
ResetSilangSegera(calls) ==
    \A i \in 1..Len(calls) :
      calls[i].op = "ritase.proses_deteksi" /\ calls[i].ret =>
        /\ i + 2 <= Len(calls)
        /\ calls[i + 1].op = "passing.reset_all_counters"
        /\ calls[i + 2].op = "ritase.reset_counters"

\* The passings counted in the frame after its last newly credited ritase.
PassingSetelahRitase(calls) ==
    Cardinality({i \in 1..Len(calls) :
        /\ calls[i].op = "passing.proses_deteksi" /\ calls[i].ret
        /\ \E j \in 1..(i - 1) : calls[j].op = "ritase.proses_deteksi" /\ calls[j].ret})

\* The cross-reset as seen on a frame that ended in loop state d.
ResetSilang(d) ==
    /\ ResetSilangSegera(d.calls)
    /\ d.ritase_baru_terdeteksi =>
         d.penghitung_passing.total_passing = PassingSetelahRitase(d.calls)

\* The application's loop does the cross-reset, in every frame of a run.
DetectorResetSilang ==
    SedangBerjalan /\ RunDetector =>
      \A tracked_truck \in TrackedLists(TruckDetections),
         tracked_bucket \in TrackedLists(BucketDetections) :
        ResetSilang(ProcessFrame(FrameAwal, tracked_truck, tracked_bucket,
                                 next_frame_index))

\* C16: whenever penghitung_ritase.proses_deteksi reports a new ritase for a
\* truck detection, the driving loop calls penghitung_passing.reset_all_counters()
\* and penghitung_ritase.reset_counters() before it processes any further
\* detection of the frame, so that total_passing restarts from 0 at each newly
\* credited ritase; for the loop of detector.py and for the loop of main.py.
C16_ResetSilangSetiapRitase ==
    /\ DetectorResetSilang
    /\ SedangBerjalan /\ RunMain =>
         \A tracked_truck \in TrackedLists(TruckDetections),
            tracked_bucket \in TrackedLists(BucketDetections) :
           ResetSilang(ProsesFrame(FrameAwal, tracked_truck, tracked_bucket,
                                   next_frame_index))

\* The calls of a frame are made phase by phase: no call of a later phase
\* comes before a call of an earlier one (phase 0: the call is in no phase).
UrutFase(calls, Fase(_)) ==
    \A i, j \in 1..Len(calls) :
      i < j /\ Fase(calls[i]) # 0 /\ Fase(calls[j]) # 0 => Fase(calls[i]) <= Fase(calls[j])

\* The phases as C17 states them: (1) digging buckets end passing cycles,
\* (2) dump and truck_full detections update the counters, (3) bucket_dumping
\* detections end the global cycle of the ritase counter.
FaseKlaim(c) ==
    IF c.op = "passing.selesaikan_siklus" THEN 1
    ELSE IF c.op = "passing.proses_deteksi" /\ c.class_id = CLASS_BUCKET_DUMPING THEN 2
    ELSE IF c.op = "ritase.proses_deteksi" /\ c.class_id = CLASS_TRUCK_FULL THEN 2
    ELSE IF c.op = "ritase.proses_deteksi" /\ c.class_id = CLASS_BUCKET_DUMPING THEN 3
    ELSE 0

\* The phases of detector.py: (1) the trucks go to the ritase counter, with
\* the cross-reset, (2) the buckets go to the ritase counter, (3) the buckets
\* go to the passing counter.
FaseDetector(c) ==
    IF c.op \in {"passing.reset_all_counters", "ritase.reset_counters"} THEN 1
    ELSE IF c.op = "ritase.proses_deteksi"
    THEN (IF c.class_id = CLASS_TRUCK_FULL THEN 1 ELSE 2)
    ELSE 3

\* The phases of main.py: (1) the buckets go to the passing counter, (2) the
\* trucks go to the ritase counter, (3) the buckets go to the ritase counter.
FaseMain(c) ==
    IF c.op \in {"passing.selesaikan_siklus", "passing.proses_deteksi"} THEN 1
    ELSE IF c.op = "ritase.proses_deteksi"
    THEN (IF c.class_id = CLASS_TRUCK_FULL THEN 2 ELSE 3)
    ELSE 0

\* The calls that carry the detections of a frame: one ritase call for every
\* truck, one ritase call and one passing call for every bucket.
SemuaDikirim(calls, tracked_truck, tracked_bucket) ==
    LET n(op, kelas) == Cardinality({i \in 1..Len(calls) :
                            calls[i].op = op /\ calls[i].class_id \in kelas})
        bucket == {CLASS_BUCKET_DIGGING, CLASS_BUCKET_DUMPING}
    IN  /\ n("ritase.proses_deteksi", {CLASS_TRUCK_FULL}) = Len(tracked_truck)
        /\ n("ritase.proses_deteksi", bucket) = Len(tracked_bucket)
        /\ n("passing.proses_deteksi", bucket) = Len(tracked_bucket)

\* C17 as stated: within one frame the counters are called in the order
\* (1) digging buckets end passing cycles, (2) dump and truck_full detections
\* update the counters, (3) bucket_dumping detections end the ritase global
\* cycle; the passing counter processes a frame's dumps before the ritase
\* counter receives the frame's closing signal.
C17_UrutanFrame ==
    SedangBerjalan =>
      \A tracked_truck \in TrackedLists(TruckDetections),
         tracked_bucket \in TrackedLists(BucketDetections) :
        /\ RunDetector =>
             UrutFase(ProcessFrame(FrameAwal, tracked_truck, tracked_bucket,
                                   next_frame_index).calls, FaseKlaim)
        /\ RunMain =>
             UrutFase(ProsesFrame(FrameAwal, tracked_truck, tracked_bucket,
                                  next_frame_index).calls, FaseKlaim)

\* C17 amended: within one frame the loop of detector.py calls the counters
\* in the order (1) every truck detection goes to the ritase counter, each
\* new ritase followed by the cross-reset, (2) every bucket detection goes to
\* the ritase counter, so that bucket_dumping ends the global cycle, (3) every
\* bucket detection goes to the passing counter, a digging bucket ending its
\* tracker's passing cycle first; the ritase counter receives a frame's
\* closing signal before the passing counter processes the frame's dumps.
\* The loop of main.py runs (3), then (1) without cross-reset, then (2).
C17_UrutanFrameDetector ==
    SedangBerjalan =>
      \A tracked_truck \in TrackedLists(TruckDetections),
         tracked_bucket \in TrackedLists(BucketDetections) :
        /\ RunDetector =>
             LET calls == ProcessFrame(FrameAwal, tracked_truck, tracked_bucket,
                                       next_frame_index).calls
             IN  /\ UrutFase(calls, FaseDetector)
                 /\ SemuaDikirim(calls, tracked_truck, tracked_bucket)
        /\ RunMain =>
             LET calls == ProsesFrame(FrameAwal, tracked_truck, tracked_bucket,
                                      next_frame_index).calls
             IN  /\ UrutFase(calls, FaseMain)
                 /\ SemuaDikirim(calls, tracked_truck, tracked_bucket)
                 /\ \A i \in 1..Len(calls) : FaseMain(calls[i]) # 0

\* C17 witness: a frame of the application in which a ritase was credited,
\* a bucket_dumping detection closed its global cycle and the same dump was
\* then counted as a passing.
C17_Witness ==
    /\ last.op = "detector._process_frame"
    /\ last.ret
    /\ next_frame_index = 1
    /\ PR.nomor_siklus = 1
    /\ PP.total_passing = 1
    /\ stats.passing_detections = 1

\* The passing counter after the calls in the order C18 states: first
\* selesaikan_siklus for every digging bucket of the frame, from the i-th ...
RECURSIVE AkhiriSemuaDigging(_, _, _)
AkhiriSemuaDigging(pp, tracked_bucket, i) ==
    IF i > Len(tracked_bucket) THEN pp
    ELSE AkhiriSemuaDigging(
            IF tracked_bucket[i].class_id = CLASS_BUCKET_DIGGING
            THEN PassingSelesaikanSiklus(pp, tracked_bucket[i].tracker_id) ELSE pp,
            tracked_bucket, i + 1)

\* ... then proses_deteksi for every bucket of the frame, from the i-th.
RECURSIVE ProsesSemuaBucket(_, _, _, _)
ProsesSemuaBucket(pp, tracked_bucket, i, frame_index) ==
    IF i > Len(tracked_bucket) THEN pp
    ELSE ProsesSemuaBucket(
            PassingProsesDeteksi(pp, tracked_bucket[i].tracker_id,
                                 tracked_bucket[i].class_id, frame_index,
                                 tracked_bucket[i].confidence).obj,
            tracked_bucket, i + 1, frame_index)

\* Every digging bucket of the frame has its selesaikan_siklus call.
SemuaDiggingDiakhiri(calls, tracked_bucket) ==
    \A b \in 1..Len(tracked_bucket) :
      tracked_bucket[b].class_id = CLASS_BUCKET_DIGGING =>
        \E i \in 1..Len(calls) :
          /\ calls[i].op = "passing.selesaikan_siklus"
          /\ calls[i].tracker_id = tracked_bucket[b].tracker_id

\* No dump is processed by the passing counter before a selesaikan_siklus
\* call of the frame, and every digging bucket has its selesaikan_siklus call.
DiggingSebelumSemuaDump(calls, tracked_bucket) ==
    /\ \A i, j \in 1..Len(calls) :
         /\ calls[i].op = "passing.proses_deteksi"
         /\ calls[i].class_id = CLASS_BUCKET_DUMPING
         /\ calls[j].op = "passing.selesaikan_siklus"
         => j < i
    /\ SemuaDiggingDiakhiri(calls, tracked_bucket)

\* Every selesaikan_siklus call is for a digging bucket and comes right before
\* the proses_deteksi call of the same detection, and the passing counter's
\* proses_deteksi call of a digging bucket comes right after such a call.
DiggingSebelumDeteksinya(calls) ==
    \A i \in 1..Len(calls) :
      /\ calls[i].op = "passing.selesaikan_siklus" =>
           /\ calls[i].class_id = CLASS_BUCKET_DIGGING
           /\ i < Len(calls)
           /\ calls[i + 1].op = "passing.proses_deteksi"
           /\ calls[i + 1].tracker_id = calls[i].tracker_id
           /\ calls[i + 1].class_id = CLASS_BUCKET_DIGGING
      /\ calls[i].op = "passing.proses_deteksi"
           /\ calls[i].class_id = CLASS_BUCKET_DIGGING =>
           /\ i > 1
           /\ calls[i - 1].op = "passing.selesaikan_siklus"
           /\ calls[i - 1].tracker_id = calls[i].tracker_id

C19_TotalRitaseDilaporkan ==
    results # None /\ RunDetector =>
      /\ results.ritase_stats.total_ritase = Len(results.ritase_events)
      /\ results.ritase_stats.total_ritase = results.stats.ritase_detections

\* The events and the event counter do agree; the total reported is that of
\* the counter after its last reset_counters call, which is 0.
DetectorTotalRitaseNol ==
    RunDetector =>
      /\ Len(ritase_events) = stats.ritase_detections
      /\ PR.total_ritase = 0
      /\ results # None => results.ritase_stats.total_ritase = 0

\* The active-cycle list of a truck (siklus_aktif is a defaultdict(list)).
DaftarAktif(self, tracker_id) ==
    IF tracker_id \in DOMAIN self.siklus_aktif
    THEN self.siklus_aktif[tracker_id] ELSE <<>>

\* The counts and the global cycle state of two PenghitungRitase objects agree.
HitunganDanSiklusSama(pre, post) ==
    /\ post.siklus_berjalan_punya_ritase = pre.siklus_berjalan_punya_ritase
    /\ post.ritase_terbaik_di_siklus = pre.ritase_terbaik_di_siklus
    /\ post.nomor_siklus = pre.nomor_siklus
    /\ post.total_ritase = pre.total_ritase
    /\ post.total_siklus_selesai = pre.total_siklus_selesai
    /\ post.total_deteksi_truk_penuh = pre.total_deteksi_truk_penuh
    /\ post.total_pencegahan_ganda = pre.total_pencegahan_ganda
    /\ DOMAIN post.data_truk = DOMAIN pre.data_truk
    /\ \A e \in DOMAIN pre.data_truk :
         post.data_truk[e].ritase_count = pre.data_truk[e].ritase_count

\* C21: selesaikan_siklus_manual(tracker_id, frame_index) on a known truck
\* leaves its active-cycle list empty, its last_cycle_number equal to
\* nomor_siklus and its last_cycle_frame equal to the given frame_index, and
\* changes neither the global cycle state nor any count; on an unknown truck
\* it changes nothing.
C21_ManualCloseMenandai ==
    \A tracker_id \in TrackerIds, frame_index \in FrameIdx :
      LET post == SelesaikanSiklusManual(PR, tracker_id, frame_index)
      IN  IF tracker_id \in DOMAIN PR.data_truk
          THEN /\ DaftarAktif(post, tracker_id) = <<>>
               /\ post.data_truk[tracker_id].last_cycle_number = PR.nomor_siklus
               /\ post.data_truk[tracker_id].last_cycle_frame = frame_index
               /\ HitunganDanSiklusSama(PR, post)
          ELSE post = PR

\* What selesaikan_siklus_manual does: the frame is stamped only on a truck
\* that has no entry in siklus_aktif; for a truck that was credited a ritase
\* once, selesaikan_siklus overwrites the stamp with 0.
ManualCloseCapFrame ==
    \A tracker_id \in TrackerIds, frame_index \in FrameIdx :
      LET post == SelesaikanSiklusManual(PR, tracker_id, frame_index)
      IN  IF tracker_id \in DOMAIN PR.data_truk
          THEN /\ DaftarAktif(post, tracker_id) = <<>>
               /\ post.data_truk[tracker_id].last_cycle_number = PR.nomor_siklus
               /\ post.data_truk[tracker_id].last_cycle_frame =
                    IF tracker_id \in DOMAIN PR.siklus_aktif THEN 0 ELSE frame_index
               /\ HitunganDanSiklusSama(PR, post)
          ELSE post = PR

\* C22: reset_statistik, called in any reachable state, returns the counter
\* to its construction state: no trucks, empty truk_full_terhitung and
\* siklus_aktif, total_ritase, total_siklus_selesai,
\* total_deteksi_truk_penuh, total_pencegahan_ganda and nomor_siklus 0,
\* siklus_berjalan_punya_ritase False, ritase_terbaik_di_siklus None, empty
\* kandidat_siklus; ambang_kepercayaan is kept.
C22_ResetStatistikKeAwal ==
    /\ LET s == ResetStatistik(PR)
       IN  /\ s = RitaseBaru(PR.ambang_kepercayaan)
           /\ DOMAIN s.data_truk = {}
           /\ s.truk_full_terhitung = {}
           /\ DOMAIN s.siklus_aktif = {}
           /\ s.total_ritase = 0
           /\ s.total_siklus_selesai = 0
           /\ s.total_deteksi_truk_penuh = 0
           /\ s.total_pencegahan_ganda = 0
           /\ s.nomor_siklus = 0
           /\ ~s.siklus_berjalan_punya_ritase
           /\ s.ritase_terbaik_di_siklus = None
           /\ s.kandidat_siklus = <<>>
           /\ s.ambang_kepercayaan = PR.ambang_kepercayaan
    /\ last.op = "ritase.reset_statistik" => PR = RitaseBaru(MIN_CONFIDENCE)

\* C22 witness: reset_statistik was called on a counter that had closed a
\* global cycle; the cycle numbering is back at 0.
C22_Witness ==
    /\ last.op = "ritase.reset_statistik"
    /\ last.jalur = "cycles_cleared"
    /\ PR = RitaseBaru(MIN_CONFIDENCE)

\* C23: every proses_deteksi call with class truck_full raises
\* total_deteksi_truk_penuh by exactly 1, whatever the outcome (credited,
\* swapped in, rejected as worse, rejected as duplicate or below the
\* threshold); a call with any other class leaves it unchanged.
C23_DeteksiMentahSelaluDihitung ==
    \A tracker_id \in TrackerIds, class_id \in ClassIds,
       frame_index \in FrameIdx, confidence \in Confidences :
      LET r == RitaseProsesDeteksi(PR, tracker_id, class_id, frame_index, confidence)
      IN  r.obj.total_deteksi_truk_penuh =
            PR.total_deteksi_truk_penuh
              + (IF class_id = CLASS_TRUCK_FULL THEN 1 ELSE 0)

\* C23 witness: four truck_full detections were processed, one credited and
\* the last one rejected as not better: the raw counter is 4, total_ritase 1.
C23_Witness ==
    /\ last.op = "ritase.proses_deteksi"
    /\ last.jalur = "rejected"
    /\ PR.total_deteksi_truk_penuh = 4
    /\ PR.total_ritase = 1

\* C24: no count is ever negative: after any sequence of calls on either
\* counter, swaps that follow reset_counters included, every truck's
\* ritase_count, every excavator's passing_count and both totals are natural
\* numbers, and every call is defined on the state it is made in (each truck
\* and excavator record a call reads has its fields, so no call raises).
C24_HitunganTidakNegatif ==
    /\ PR.total_ritase \in Nat
    /\ PP.total_passing \in Nat
    /\ \A e \in DOMAIN PR.data_truk :
         /\ DOMAIN PR.data_truk[e] =
              {"ritase_count", "best_full", "last_cycle_frame", "last_cycle_number"}
         /\ PR.data_truk[e].ritase_count \in Nat
    /\ \A e \in DOMAIN PP.excavators :
         /\ DOMAIN PP.excavators[e] = {"passing_count", "best_dump"}
         /\ PP.excavators[e].passing_count \in Nat
    /\ PR.siklus_berjalan_punya_ritase /\ PR.ritase_terbaik_di_siklus # None =>
         PR.ritase_terbaik_di_siklus.tracker_id \in DOMAIN PR.data_truk

\* C24 witness: after reset_counters in a credited cycle a better candidate of
\* another truck was swapped in: the previous best's truck, whose count the
\* reset had set to 0, was lowered with the floor and is still at 0.
C24_Witness ==
    /\ reset_setelah_ritase
    /\ last.op = "ritase.proses_deteksi"
    /\ last.jalur = "better_candidate"
    /\ \E e \in DOMAIN PR.siklus_aktif :
         /\ e # last.tracker_id
         /\ PR.siklus_aktif[e] # <<>>
         /\ PR.data_truk[e].ritase_count = 0
    /\ DOMAIN PR.siklus_aktif \cap {last.tracker_id} = {}

\* C25: siklus_berjalan_punya_ritase is True if and only if
\* ritase_terbaik_di_siklus is not None, in every state reached by
\* proses_deteksi, selesaikan_siklus_manual, reset_counters and
\* reset_statistik calls; so a truck_full detection that takes the branch of
\* line 130 never finds ritase_terbaik_di_siklus None (line 132).
C25_PunyaRitaseSamaDenganAdaTerbaik ==
    /\ PR.siklus_berjalan_punya_ritase <=> PR.ritase_terbaik_di_siklus # None
    /\ \A tracker_id \in TrackerIds, frame_index \in FrameIdx,
          confidence \in Confidences :
         RitaseJalur(PR, tracker_id, CLASS_TRUCK_FULL, frame_index, confidence)
             \in {"better_candidate", "rejected"}
           => PR.ritase_terbaik_di_siklus # None

\* C25 witness: a truck_full detection took the branch of line 130 after
\* reset_counters and was rejected against the best candidate, which the
\* reset had left in place.
C25_Witness ==
    /\ reset_setelah_ritase
    /\ last.op = "ritase.proses_deteksi"
    /\ last.jalur = "rejected"
    /\ PR.siklus_berjalan_punya_ritase
    /\ PR.ritase_terbaik_di_siklus # None

\* C26: in a sequence of proses_deteksi and selesaikan_siklus_manual calls
\* that contains no reset_counters call, total_ritase equals the sum of
\* ritase_count over all trucks, in every state.
C26_TotalSamaDenganJumlahTruk == PR.total_ritase = JumlahRitaseTruck(PR)

\* C26 witness: in the second credited cycle the best candidate was swapped
\* to the other truck: total_ritase is 2 and the two counts add up to 2.
C26_Witness ==
    /\ last.op = "ritase.proses_deteksi"
    /\ last.jalur = "better_candidate"
    /\ PR.nomor_siklus = 1
    /\ PR.total_ritase = 2
    /\ DOMAIN PR.data_truk = TrackerIds
    /\ PR.ritase_terbaik_di_siklus.tracker_id \notin DOMAIN PR.siklus_aktif

\* C27: whenever ritase_terbaik_di_siklus is set its confidence is at least
\* ambang_kepercayaan, although the branch of line 130 tests neither the
\* threshold nor the seen-set: a truck_full detection below the threshold
\* never becomes the best candidate of a cycle.
C27_TerbaikDiAtasAmbang ==
    /\ PR.ritase_terbaik_di_siklus # None =>
         PR.ritase_terbaik_di_siklus.confidence >= PR.ambang_kepercayaan
    /\ \A tracker_id \in TrackerIds, frame_index \in FrameIdx,
          confidence \in Confidences :
         LET r == RitaseProsesDeteksi(PR, tracker_id, CLASS_TRUCK_FULL,
                                      frame_index, confidence)
         IN  confidence < PR.ambang_kepercayaan =>
               /\ ~r.ret
               /\ r.obj.ritase_terbaik_di_siklus = PR.ritase_terbaik_di_siklus
               /\ r.obj.data_truk[tracker_id].ritase_count =
                    DapatkanRitaseCount(PR, tracker_id)

\* C27 witness: in a cycle whose credited ritase has exactly the threshold
\* confidence, a truck_full detection below the threshold took the branch of
\* line 130 and is in the trail as rejected.
C27_Witness ==
    /\ last.op = "ritase.proses_deteksi"
    /\ last.jalur = "rejected"
    /\ PR.ritase_terbaik_di_siklus # None
    /\ PR.ritase_terbaik_di_siklus.confidence = PR.ambang_kepercayaan
    /\ Len(PR.kandidat_siklus) >= 2
    /\ LET k == PR.kandidat_siklus[Len(PR.kandidat_siklus)]
       IN  k.confidence < PR.ambang_kepercayaan /\ k.status = "rejected"

\* C28: truk_full_terhitung contains exactly the identities of the detections
\* credited as primary (the calls that returned True) since construction or
\* the last reset_statistik.  A detection swapped in as a better candidate is
\* not added to it: if its identity was never credited, the same detection
\* fed again after the cycle was closed is credited as a new ritase.
C28_TerhitungHanyaYangDikreditkan ==
    /\ PR.truk_full_terhitung = id_dikreditkan
    /\ \A tracker_id \in TrackerIds, frame_index \in FrameIdx,
          confidence \in Confidences :
         LET r == RitaseProsesDeteksi(PR, tracker_id, CLASS_TRUCK_FULL,
                                      frame_index, confidence)
             ditutup == SelesaikanSiklusGlobal(r.obj)
             lagi == RitaseProsesDeteksi(ditutup, tracker_id, CLASS_TRUCK_FULL,
                                         frame_index, confidence)
         IN  RitaseJalur(PR, tracker_id, CLASS_TRUCK_FULL, frame_index, confidence)
                 = "better_candidate"
               => /\ r.obj.truk_full_terhitung = PR.truk_full_terhitung
                  /\ FormatId(tracker_id, frame_index) \notin PR.truk_full_terhitung
                       => lagi.ret

\* C28 witness: the detection credited last, in a later cycle, has an
\* identity that had been swapped in as a better candidate before.
C28_Witness ==
    /\ last.op = "ritase.proses_deteksi"
    /\ last.jalur = "accepted_as_primary"
    /\ PR.nomor_siklus >= 1
    /\ \E id \in id_ditukar \cap PR.truk_full_terhitung :
         /\ id[1] = PR.ritase_terbaik_di_siklus.tracker_id
         /\ id[2] = PR.ritase_terbaik_di_siklus.frame_index

\* The calls of a frame's record that reported a new ritase.
PanggilanRitaseBaru(calls) ==
    {i \in 1..Len(calls) : calls[i].op = "ritase.proses_deteksi" /\ calls[i].ret}

\* C29: in the loop of detector.py at most one ritase event is recorded per
\* frame, for any number of truck_full detections in the frame: no two
\* entries of ritase_events have the same frame, and a frame raises
\* stats["ritase_detections"] by at most 1, with at most one proses_deteksi
\* call returning True.
C29_SatuEventPerFrame ==
    /\ \A i, j \in 1..Len(ritase_events) :
         i # j => ritase_events[i].Frame # ritase_events[j].Frame
    /\ stats.ritase_detections = Len(ritase_events)
    /\ stats.ritase_detections <= next_frame_index
    /\ SedangBerjalan =>
         \A tracked_truck \in TrackedLists(TruckDetections) :
           LET nomor_siklus_awal == PR.nomor_siklus
               d == TruckLoop(FrameAwal, tracked_truck, 1, next_frame_index,
                              nomor_siklus_awal)
           IN  /\ Cardinality(PanggilanRitaseBaru(d.calls)) <= 1
               /\ Len(d.ritase_events) <= Len(ritase_events) + 1

\* C29 witness: the last frame had two truck_full detections at or above the
\* threshold, on two trucks; the first was credited and the second went to
\* the trail of the same cycle: one event was recorded for the frame.
C29_Witness ==
    /\ last.op = "detector._process_frame"
    /\ Len(ritase_events) >= 1
    /\ ritase_events[Len(ritase_events)].Frame = next_frame_index - 1
    /\ Len(PR.kandidat_siklus) = 2
    /\ PR.kandidat_siklus[1].status = "accepted_as_primary"
    /\ PR.kandidat_siklus[1].frame_index = next_frame_index - 1
    /\ PR.kandidat_siklus[2].frame_index = next_frame_index - 1
    /\ PR.kandidat_siklus[2].tracker_id # PR.kandidat_siklus[1].tracker_id
    /\ PR.kandidat_siklus[2].confidence >= PR.ambang_kepercayaan

\* The ritase indicator agrees with the counter's global cycle.
TampilanSesuai ==
    /\ display_ritase = 1 <=> PR.siklus_berjalan_punya_ritase
    /\ siklus_terakhir = PR.nomor_siklus

\* C30: within one run on a fresh detector display_ritase is always 0 or 1,
\* and at the end of every frame that is processed without an exception it is
\* 1 if and only if the current global cycle of penghitung_ritase has a
\* credited ritase, and siklus_terakhir equals the counter's nomor_siklus;
\* also when earlier frames ended in the except clause.
C30_IndikatorRitase ==
    /\ display_ritase \in {0, 1}
    /\ last.op \in {"init", "detector._process_frame"} => TampilanSesuai
    /\ siklus_terakhir <= PR.nomor_siklus
    /\ PR.siklus_berjalan_punya_ritase =>
         display_ritase = 1 /\ siklus_terakhir = PR.nomor_siklus

\* C30 witness: frame 0 credited a ritase, closed its cycle and ended in the
\* except clause with the indicator still on; frame 1 ran to its end and
\* switched the indicator off.
C30_Witness ==
    /\ last.op = "detector._process_frame"
    /\ last.jalur = "after_exception"
    /\ Len(ritase_events) = 1
    /\ ritase_events[1].Frame = 0
    /\ PR.nomor_siklus = 1
    /\ ~PR.siklus_berjalan_punya_ritase
    /\ display_ritase = 0
    /\ siklus_terakhir = 1

====
